---- MODULE Spec2Model ----
(***************************************************************************)
(* Card identification of the Andookie buy-back site: the text route       *)
(* (process-text POST + parseCardLine) and the OCR service's extraction of *)
(* card information.                                                       *)
(*                                                                         *)
(* A JavaScript string is modelled as a sequence of one-character strings, *)
(* so that includes, toLowerCase, trim, split and the regular expressions  *)
(* are computed character by character.  Prices are integers counted in    *)
(* cents; the condition multipliers are counted in tenths.                 *)
(***************************************************************************)
EXTENDS Integers, Sequences, FiniteSets, TLC

(* ------------------------------------------------------------------ *)
(* Bounds of the model                                                 *)
(* ------------------------------------------------------------------ *)

\* the longest fragment, in vocabulary tokens, of a one-line request
MaxTokens == 2

\* the largest number of lines of a many-line request
MaxLines == 3

(* ------------------------------------------------------------------ *)
(* String primitives of the JavaScript runtime                         *)
(* ------------------------------------------------------------------ *)

LowerMap ==
  "A" :> "a" @@ "B" :> "b" @@ "C" :> "c" @@ "D" :> "d" @@ "E" :> "e" @@
  "F" :> "f" @@ "G" :> "g" @@ "H" :> "h" @@ "I" :> "i" @@ "J" :> "j" @@
  "K" :> "k" @@ "L" :> "l" @@ "M" :> "m" @@ "N" :> "n" @@ "O" :> "o" @@
  "P" :> "p" @@ "Q" :> "q" @@ "R" :> "r" @@ "S" :> "s" @@ "T" :> "t" @@
  "U" :> "u" @@ "V" :> "v" @@ "W" :> "w" @@ "X" :> "x" @@ "Y" :> "y" @@
  "Z" :> "z"

Digits == {"0", "1", "2", "3", "4", "5", "6", "7", "8", "9"}

Whitespace == {" ", "\t", "\n", "\r"}

isDigit(c) == c \in Digits

SetMin(S) == CHOOSE x \in S : \A y \in S : x <= y

SetMax(S) == CHOOSE x \in S : \A y \in S : y <= x

\* String.prototype.toLowerCase
toLowerCase(s) ==
  [i \in 1..Len(s) |-> IF s[i] \in DOMAIN LowerMap THEN LowerMap[s[i]] ELSE s[i]]

\* String.prototype.trim
trim(s) ==
  LET keep == {i \in 1..Len(s) : s[i] \notin Whitespace}
  IN  IF keep = {} THEN <<>> ELSE SubSeq(s, SetMin(keep), SetMax(keep))

\* String.prototype.includes
includes(s, sub) ==
  \E i \in 1..(Len(s) - Len(sub) + 1) : SubSeq(s, i, i + Len(sub) - 1) = sub

\* String.prototype.split with a one-character separator
RECURSIVE split(_, _)
split(s, sep) ==
  LET at == {i \in 1..Len(s) : s[i] = sep}
  IN  IF at = {} THEN <<s>>
      ELSE <<SubSeq(s, 1, SetMin(at) - 1)>>
             \o split(SubSeq(s, SetMin(at) + 1, Len(s)), sep)

\* String.prototype.replace(c, '') with a one-character string pattern:
\* only the first occurrence is removed
replaceFirst(s, c) ==
  LET at == {i \in 1..Len(s) : s[i] = c}
  IN  IF at = {} THEN s
      ELSE SubSeq(s, 1, SetMin(at) - 1) \o SubSeq(s, SetMin(at) + 1, Len(s))

\* Array.prototype.join
RECURSIVE join(_, _)
join(parts, sep) ==
  IF Len(parts) = 0 THEN <<>>
  ELSE IF Len(parts) = 1 THEN parts[1]
  ELSE parts[1] \o sep \o join(Tail(parts), sep)

\* the number of consecutive decimal digits of s from position p on (\d+)
digitRun(s, p) ==
  LET stops == {j \in p..Len(s) : ~isDigit(s[j])}
  IN  IF p > Len(s) THEN 0
      ELSE IF stops = {} THEN Len(s) - p + 1
      ELSE SetMin(stops) - p

(* ------------------------------------------------------------------ *)
(* The catalogue and the tables of the text route                      *)
(* ------------------------------------------------------------------ *)

AllVariants ==
  <<"Near Mint", "Lightly Played", "Moderately Played", "Heavily Played">>

\* marketPrice in cents
MOCK_CARD_DATABASE == <<
  \* Charizard, Base Set, 4/102
  [id |-> 1,
   name |-> <<"C","h","a","r","i","z","a","r","d">>,
   set |-> <<"B","a","s","e"," ","S","e","t">>,
   number |-> <<"4","/","1","0","2">>,
   marketPrice |-> 45000,
   variants |-> AllVariants],
  \* Pikachu VMAX, Vivid Voltage, 044/185
  [id |-> 2,
   name |-> <<"P","i","k","a","c","h","u"," ","V","M","A","X">>,
   set |-> <<"V","i","v","i","d"," ","V","o","l","t","a","g","e">>,
   number |-> <<"0","4","4","/","1","8","5">>,
   marketPrice |-> 8500,
   variants |-> AllVariants],
  \* Blastoise, Base Set, 2/102
  [id |-> 3,
   name |-> <<"B","l","a","s","t","o","i","s","e">>,
   set |-> <<"B","a","s","e"," ","S","e","t">>,
   number |-> <<"2","/","1","0","2">>,
   marketPrice |-> 18000,
   variants |-> AllVariants],
  \* Venusaur, Base Set, 15/102
  [id |-> 4,
   name |-> <<"V","e","n","u","s","a","u","r">>,
   set |-> <<"B","a","s","e"," ","S","e","t">>,
   number |-> <<"1","5","/","1","0","2">>,
   marketPrice |-> 12000,
   variants |-> AllVariants],
  \* Pikachu, Base Set, 58/102
  [id |-> 5,
   name |-> <<"P","i","k","a","c","h","u">>,
   set |-> <<"B","a","s","e"," ","S","e","t">>,
   number |-> <<"5","8","/","1","0","2">>,
   marketPrice |-> 3500,
   variants |-> AllVariants],
  \* Alakazam, Base Set, 1/102
  [id |-> 6,
   name |-> <<"A","l","a","k","a","z","a","m">>,
   set |-> <<"B","a","s","e"," ","S","e","t">>,
   number |-> <<"1","/","1","0","2">>,
   marketPrice |-> 9000,
   variants |-> AllVariants] >>

\* Object.entries(CONDITIONS): the keys in insertion order
CONDITIONS == <<
  \* mint
  [keyword |-> <<"m","i","n","t">>,
   conditionName |-> "Mint"],
  \* near mint
  [keyword |-> <<"n","e","a","r"," ","m","i","n","t">>,
   conditionName |-> "Near Mint"],
  \* nm
  [keyword |-> <<"n","m">>,
   conditionName |-> "Near Mint"],
  \* lightly played
  [keyword |-> <<"l","i","g","h","t","l","y"," ","p","l","a","y","e","d">>,
   conditionName |-> "Lightly Played"],
  \* lp
  [keyword |-> <<"l","p">>,
   conditionName |-> "Lightly Played"],
  \* moderately played
  [keyword |-> <<"m","o","d","e","r","a","t","e","l","y"," ","p","l","a","y","e","d">>,
   conditionName |-> "Moderately Played"],
  \* mp
  [keyword |-> <<"m","p">>,
   conditionName |-> "Moderately Played"],
  \* heavily played
  [keyword |-> <<"h","e","a","v","i","l","y"," ","p","l","a","y","e","d">>,
   conditionName |-> "Heavily Played"],
  \* hp
  [keyword |-> <<"h","p">>,
   conditionName |-> "Heavily Played"],
  \* damaged
  [keyword |-> <<"d","a","m","a","g","e","d">>,
   conditionName |-> "Heavily Played"] >>

\* conditionMultipliers with 1.2 for Mint
conditionMultipliersGenerous ==
  "Mint" :> 12 @@ "Near Mint" :> 10 @@ "Lightly Played" :> 8 @@
  "Moderately Played" :> 6 @@ "Heavily Played" :> 4

\* the multipliers of parseCardLine, in tenths
conditionMultipliers ==
  "Mint" :> 11 @@ "Near Mint" :> 10 @@ "Lightly Played" :> 8 @@
  "Moderately Played" :> 6 @@ "Heavily Played" :> 4

\* 70% of market value, in tenths
OfferTenths == 7

NameBonus == 3

SetBonus == 2

NumberBonus == 2

WordBonus == 1

MinScore == 2

ConfidenceDivisor == 5

\* the value of a JavaScript null
Null == [isNull |-> TRUE]

(* ------------------------------------------------------------------ *)
(* parseCardLine                                                       *)
(* ------------------------------------------------------------------ *)

\* the for loop over Object.entries(CONDITIONS) from entry k on:
\* the first keyword the line includes sets the condition and breaks
RECURSIVE scanConditions(_, _, _)
scanConditions(lowerLine, k, condition) ==
  IF k > Len(CONDITIONS) THEN condition
  ELSE IF includes(lowerLine, CONDITIONS[k].keyword)
       THEN CONDITIONS[k].conditionName
       ELSE scanConditions(lowerLine, k + 1, condition)

\* let condition = 'Near Mint' followed by the scan
extractCondition(lowerLine) == scanConditions(lowerLine, 1, "Near Mint")

\* the length of the match of \d+\/\d+ that starts at position p, or 0
fractionAt(s, p) ==
  LET a == digitRun(s, p)
      b == digitRun(s, p + a + 1)
  IN  IF a >= 1 /\ p + a <= Len(s) /\ s[p + a] = "/" /\ b >= 1
      THEN a + 1 + b ELSE 0

\* the length of the match of #\d+ that starts at position p, or 0
hashAt(s, p) ==
  IF s[p] = "#" /\ digitRun(s, p + 1) >= 1 THEN 1 + digitRun(s, p + 1) ELSE 0

\* trimmedLine.match(/(\d+\/\d+|#\d+)/): the leftmost match as the array
\* <<whole match, group 1>>, or <<>> for null
numberMatch(s) ==
  LET hits == {p \in 1..Len(s) : fractionAt(s, p) > 0 \/ hashAt(s, p) > 0}
  IN  IF hits = {} THEN <<>>
      ELSE LET p == SetMin(hits)
               n == IF fractionAt(s, p) > 0 THEN fractionAt(s, p) ELSE hashAt(s, p)
           IN  <<SubSeq(s, p, p + n - 1), SubSeq(s, p, p + n - 1)>>

\* let cardNumber = ''; if (numberMatch) cardNumber = numberMatch[1].replace('#', '')
extractCardNumber(trimmedLine) ==
  LET m == numberMatch(trimmedLine)
  IN  IF m = <<>> THEN <<>> ELSE replaceFirst(m[2], "#")

\* the loop over cardNameWords: one point for each word the line includes
RECURSIVE wordScore(_, _, _)
wordScore(lowerLine, cardNameWords, score) ==
  IF cardNameWords = <<>> THEN score
  ELSE wordScore(lowerLine, Tail(cardNameWords),
                 IF includes(lowerLine, Head(cardNameWords))
                 THEN score + WordBonus ELSE score)

\* cardScore with the name looked up as written in the catalogue, capitals
\* and all, in the lower-cased line
cardScoreCaseSensitive(card, lowerLine, cardNumber) ==
  LET s1 == IF includes(lowerLine, card.name) THEN NameBonus ELSE 0
      s2 == IF includes(lowerLine, toLowerCase(card.set)) THEN s1 + SetBonus ELSE s1
      s3 == IF cardNumber # <<>> /\ includes(card.number, cardNumber)
            THEN s2 + NumberBonus ELSE s2
  IN  wordScore(lowerLine, split(toLowerCase(card.name), " "), s3)

\* cardScore with the words counted only when the whole name is not found
cardScoreWordsElse(card, lowerLine, cardNumber) ==
  LET s1 == IF includes(lowerLine, toLowerCase(card.name)) THEN NameBonus ELSE 0
      s2 == IF includes(lowerLine, toLowerCase(card.set)) THEN s1 + SetBonus ELSE s1
      s3 == IF cardNumber # <<>> /\ includes(card.number, cardNumber)
            THEN s2 + NumberBonus ELSE s2
  IN  IF s1 > 0 THEN s3
      ELSE wordScore(lowerLine, split(toLowerCase(card.name), " "), s3)

\* cardScore without the test of cardNumber: the empty string is included
\* in every number
cardScoreEmptyHint(card, lowerLine, cardNumber) ==
  LET s1 == IF includes(lowerLine, toLowerCase(card.name)) THEN NameBonus ELSE 0
      s2 == IF includes(lowerLine, toLowerCase(card.set)) THEN s1 + SetBonus ELSE s1
      s3 == IF includes(card.number, cardNumber) THEN s2 + NumberBonus ELSE s2
  IN  wordScore(lowerLine, split(toLowerCase(card.name), " "), s3)

\* the body of the loop over the catalogue: the score of one card
cardScore(card, lowerLine, cardNumber) ==
  LET s1 == IF includes(lowerLine, toLowerCase(card.name)) THEN NameBonus ELSE 0
      s2 == IF includes(lowerLine, toLowerCase(card.set)) THEN s1 + SetBonus ELSE s1
      s3 == IF cardNumber # <<>> /\ includes(card.number, cardNumber)
            THEN s2 + NumberBonus ELSE s2
  IN  wordScore(lowerLine, split(toLowerCase(card.name), " "), s3)

\* betterMatch with >= for >: among equal scores the last card wins
betterMatchOrEqual(score, highestScore) == score >= highestScore

\* if (score > highestScore) { highestScore = score; bestMatch = card }
\* bestMatch is the card's position in the catalogue, 0 for null
betterMatch(score, highestScore) == score > highestScore

\* the loop over MOCK_CARD_DATABASE from entry k on
RECURSIVE matchLoop(_, _, _, _, _)
matchLoop(lowerLine, cardNumber, k, bestMatch, highestScore) ==
  IF k > Len(MOCK_CARD_DATABASE)
  THEN [bestMatch |-> bestMatch, highestScore |-> highestScore]
  ELSE LET score == cardScore(MOCK_CARD_DATABASE[k], lowerLine, cardNumber)
       IN  IF betterMatch(score, highestScore)
           THEN matchLoop(lowerLine, cardNumber, k + 1, k, score)
           ELSE matchLoop(lowerLine, cardNumber, k + 1, bestMatch, highestScore)

\* accepted without the threshold
acceptedAnyScore(bestMatch, highestScore) == bestMatch # 0

\* if (bestMatch && highestScore >= 2)
accepted(bestMatch, highestScore) == bestMatch # 0 /\ highestScore >= MinScore

\* Math.round(x * 100) / 100 for a price of n units, scale units to the cent
roundCents(n, scale) == (2 * n + scale) \div (2 * scale)

\* parseCardLine with the offer taken from the catalogue price, not from
\* the price at the condition
parseCardLineOfferFromCatalogue(line, random) ==
  LET trimmedLine == trim(line)
      lowerLine == toLowerCase(trimmedLine)
      condition == extractCondition(lowerLine)
      cardNumber == extractCardNumber(trimmedLine)
      m == matchLoop(lowerLine, cardNumber, 1, 0, 0)
  IN  IF trimmedLine = <<>> THEN Null
      ELSE IF accepted(m.bestMatch, m.highestScore)
      THEN LET bestMatch == MOCK_CARD_DATABASE[m.bestMatch]
               conditionPrice == bestMatch.marketPrice * conditionMultipliers[condition]
               ourOffer == bestMatch.marketPrice * 10 * OfferTenths
           IN  [isNull |-> FALSE,
                id |-> <<bestMatch.id, random>>,
                name |-> bestMatch.name,
                set |-> bestMatch.set,
                number |-> bestMatch.number,
                condition |-> condition,
                marketPrice |-> roundCents(conditionPrice, 10),
                ourOffer |-> roundCents(ourOffer, 100),
                confidence |-> [num |-> m.highestScore, den |-> ConfidenceDivisor],
                originalText |-> trimmedLine]
      ELSE Null

\* parseCardLine(line); random is the value Math.random() returns
parseCardLine(line, random) ==
  LET trimmedLine == trim(line)
      lowerLine == toLowerCase(trimmedLine)
      condition == extractCondition(lowerLine)
      cardNumber == extractCardNumber(trimmedLine)
      m == matchLoop(lowerLine, cardNumber, 1, 0, 0)
  IN  IF trimmedLine = <<>> THEN Null
      ELSE IF accepted(m.bestMatch, m.highestScore)
      THEN LET bestMatch == MOCK_CARD_DATABASE[m.bestMatch]
               \* in thousandths of a dollar
               conditionPrice == bestMatch.marketPrice * conditionMultipliers[condition]
               \* in ten-thousandths of a dollar
               ourOffer == conditionPrice * OfferTenths
           IN  [isNull |-> FALSE,
                id |-> <<bestMatch.id, random>>,
                name |-> bestMatch.name,
                set |-> bestMatch.set,
                number |-> bestMatch.number,
                condition |-> condition,
                marketPrice |-> roundCents(conditionPrice, 10),
                ourOffer |-> roundCents(ourOffer, 100),
                confidence |-> [num |-> m.highestScore, den |-> ConfidenceDivisor],
                originalText |-> trimmedLine]
      ELSE Null

(* ------------------------------------------------------------------ *)
(* OCRService.extractCardInfo                                          *)
(* ------------------------------------------------------------------ *)

\* the value of a JavaScript undefined where a condition is expected
Undefined == "undefined"

\* \w
isWordChar(c) ==
  c \in DOMAIN LowerMap \/ c \in {LowerMap[u] : u \in DOMAIN LowerMap}
    \/ c \in Digits \/ c = "_"

wordAt(s, i) == i >= 1 /\ i <= Len(s) /\ isWordChar(s[i])

\* \b between the positions p - 1 and p
boundary(s, p) == wordAt(s, p - 1) # wordAt(s, p)

\* the number of consecutive word characters of s from position p on (\w+)
wordRun(s, p) ==
  LET stops == {j \in p..Len(s) : ~isWordChar(s[j])}
  IN  IF p > Len(s) THEN 0
      ELSE IF stops = {} THEN Len(s) - p + 1
      ELSE SetMin(stops) - p

\* the number of consecutive white space characters from position p on (\s+)
spaceRun(s, p) ==
  LET stops == {j \in p..Len(s) : s[j] \notin Whitespace}
  IN  IF p > Len(s) THEN 0
      ELSE IF stops = {} THEN Len(s) - p + 1
      ELSE SetMin(stops) - p

\* the length of the match of (a1|a2|...)\b at position p, or 0: the first
\* alternative, in the order written, that is followed by a word boundary
altAt(s, p, alts) ==
  LET ok == {k \in 1..Len(alts) :
               /\ p + Len(alts[k]) - 1 <= Len(s)
               /\ SubSeq(s, p, p + Len(alts[k]) - 1) = alts[k]
               /\ boundary(s, p + Len(alts[k]))}
  IN  IF ok = {} THEN 0 ELSE Len(alts[SetMin(ok)])

\* the length of the match of \b(a1|a2|...)\b at position p, or 0
wordAltAt(s, p, alts) == IF boundary(s, p) THEN altAt(s, p, alts) ELSE 0

\* the length of the match of \b\w+\s+(a1|a2|...)\b at position p, or 0
suffixedNameAt(s, p, alts) ==
  LET w == wordRun(s, p)
      sp == spaceRun(s, p + w)
      n == altAt(s, p + w + sp, alts)
  IN  IF boundary(s, p) /\ w >= 1 /\ sp >= 1 /\ n > 0 THEN w + sp + n ELSE 0

\* the length of the match of \b(\d{1,3}\/\d{1,3})\b at position p, or 0
ocrFractionAt(s, p) ==
  LET a == digitRun(s, p)
      b == digitRun(s, p + a + 1)
  IN  IF /\ boundary(s, p)
         /\ a >= 1 /\ a <= 3
         /\ p + a <= Len(s) /\ s[p + a] = "/"
         /\ b >= 1 /\ b <= 3
         /\ boundary(s, p + a + 1 + b)
      THEN a + 1 + b ELSE 0

\* the length of the match of \b#(\d{1,3})\b at position p, or 0
ocrHashAt(s, p) ==
  LET b == digitRun(s, p + 1)
  IN  IF /\ boundary(s, p)
         /\ s[p] = "#"
         /\ b >= 1 /\ b <= 3
         /\ boundary(s, p + 1 + b)
      THEN 1 + b ELSE 0

\* the matches of a global pattern from position p on, left to right and
\* not overlapping; lenAt[q] is the length of the pattern's match at q
RECURSIVE collect(_, _, _)
collect(s, lenAt, p) ==
  IF p > Len(s) THEN <<>>
  ELSE IF lenAt[p] > 0
       THEN <<SubSeq(s, p, p + lenAt[p] - 1)>> \o collect(s, lenAt, p + lenAt[p])
       ELSE collect(s, lenAt, p + 1)

\* allText.match(pattern) || [] for the patterns of extractCardInfo
matchWordAlt(s, alts) == collect(s, [p \in 1..Len(s) |-> wordAltAt(s, p, alts)], 1)

matchSuffixedName(s, alts) == collect(s, [p \in 1..Len(s) |-> suffixedNameAt(s, p, alts)], 1)

matchOcrFraction(s) == collect(s, [p \in 1..Len(s) |-> ocrFractionAt(s, p)], 1)

matchOcrHash(s) == collect(s, [p \in 1..Len(s) |-> ocrHashAt(s, p)], 1)

knownPokemon == <<
  <<"c","h","a","r","i","z","a","r","d">>, <<"p","i","k","a","c","h","u">>,
      <<"b","l","a","s","t","o","i","s","e">>, <<"v","e","n","u","s","a","u",
      "r">>, <<"a","l","a","k","a","z","a","m">>,
  <<"m","e","w","t","w","o">>, <<"m","e","w">>, <<"d","r","a","g","o","n","i",
      "t","e">>, <<"g","y","a","r","a","d","o","s">>, <<"m","a","c","h","a",
      "m","p">>, <<"g","e","n","g","a","r">>,
  <<"a","r","t","i","c","u","n","o">>, <<"z","a","p","d","o","s">>, <<"m","o",
      "l","t","r","e","s">> >>

\* the alternatives of cardNamePatterns[0]
cardNameAlts == <<
  <<"c","h","a","r","i","z","a","r","d">>, <<"p","i","k","a","c","h","u">>,
      <<"b","l","a","s","t","o","i","s","e">>, <<"v","e","n","u","s","a","u",
      "r">>, <<"a","l","a","k","a","z","a","m">>,
  <<"m","e","w","t","w","o">>, <<"m","e","w">>, <<"d","r","a","g","o","n","i",
      "t","e">>, <<"g","y","a","r","a","d","o","s">>, <<"m","a","c","h","a",
      "m","p">>, <<"g","e","n","g","a","r">>,
  <<"a","r","t","i","c","u","n","o">>, <<"z","a","p","d","o","s">>, <<"m","o",
      "l","t","r","e","s">> >>

\* the alternatives of cardNamePatterns[1]
cardSuffixAlts == <<
  <<"v">>, <<"v","m","a","x">>, <<"g","x">>, <<"e","x">>, <<"p","r","i","m",
      "e">>, <<"s","t","a","r">>, <<"d","e","l","t","a">>, <<"c","r","y","s",
      "t","a","l">> >>

\* the alternatives of setPatterns[0]
setAlts == <<
  <<"b","a","s","e"," ","s","e","t">>, <<"j","u","n","g","l","e">>, <<"f","o",
      "s","s","i","l">>, <<"t","e","a","m"," ","r","o","c","k","e","t">>,
      <<"g","y","m">>, <<"n","e","o">>,
  <<"e","-","c","a","r","d">>, <<"e","x">>, <<"d","i","a","m","o","n","d">>,
      <<"p","e","a","r","l">>, <<"p","l","a","t","i","n","u","m">>, <<"b","l",
      "a","c","k">>,
  <<"w","h","i","t","e">>, <<"x","y">>, <<"s","u","n">>, <<"m","o","o","n">>,
      <<"s","w","o","r","d">>, <<"s","h","i","e","l","d">>, <<"b","r","i","l",
      "l","i","a","n","t">>,
  <<"a","s","t","r","a","l">>, <<"l","o","s","t">>, <<"s","i","l","v","e",
      "r">>, <<"p","a","l","d","e","a">>, <<"o","b","s","i","d","i","a","n">>,
      <<"c","r","o","w","n">>,
  <<"c","h","i","l","l","i","n","g">>, <<"b","a","t","t","l","e">>, <<"v","i",
      "v","i","d">>, <<"d","a","r","k","n","e","s","s">>, <<"r","e","b","e",
      "l">>, <<"p","o","k","e","m","o","n"," ","g","o">> >>

\* the alternatives of conditionPatterns[0]
conditionAlts == <<
  <<"m","i","n","t">>, <<"n","e","a","r"," ","m","i","n","t">>, <<"n","m">>,
      <<"l","i","g","h","t","l","y"," ","p","l","a","y","e","d">>, <<"l",
      "p">>,
  <<"m","o","d","e","r","a","t","e","l","y"," ","p","l","a","y","e","d">>,
      <<"m","p">>, <<"h","e","a","v","i","l","y"," ","p","l","a","y","e",
      "d">>, <<"h","p">>, <<"d","a","m","a","g","e","d">>,
  <<"p","o","o","r">> >>

\* the card names: the matches of both cardNamePatterns, pattern by pattern
extractCardNames(allText) ==
  matchWordAlt(allText, cardNameAlts) \o matchSuffixedName(allText, cardSuffixAlts)

extractSets(allText) == matchWordAlt(allText, setAlts)

\* the card numbers: the matches of both numberPatterns, pattern by pattern
extractNumbers(allText) == matchOcrFraction(allText) \o matchOcrHash(allText)

extractConditions(allText) == matchWordAlt(allText, conditionAlts)

\* arr[i] of a JavaScript array, i counted from 0: <<v>>, or <<>> for undefined
at(arr, i) == IF i + 1 <= Len(arr) THEN <<arr[i + 1]>> ELSE <<>>

\* a || b for optional strings: a when it is a non-empty string
orElse(a, b) == IF a # <<>> /\ a[1] # <<>> THEN a ELSE b

\* normalizeCondition with the default of the text route where the code
\* returns undefined
normalizeConditionDefaulting(condition) ==
  IF condition = <<>> \/ condition[1] = <<>> THEN "Near Mint"
  ELSE LET normalized == trim(toLowerCase(condition[1]))
       IN  IF includes(normalized, <<"m","i","n","t">>) /\ ~includes(normalized, <<"n","e","a","r">>)
             THEN "Mint"
           ELSE IF includes(normalized, <<"n","e","a","r"," ","m","i","n","t">>) \/ normalized = <<"n","m">>
             THEN "Near Mint"
           ELSE IF includes(normalized, <<"l","i","g","h","t","l","y"," ","p","l","a","y","e","d">>) \/ normalized = <<"l","p">>
             THEN "Lightly Played"
           ELSE IF includes(normalized, <<"m","o","d","e","r","a","t","e","l","y"," ","p","l","a","y","e","d">>) \/ normalized = <<"m","p">>
             THEN "Moderately Played"
           ELSE IF includes(normalized, <<"h","e","a","v","i","l","y"," ","p","l","a","y","e","d">>) \/ normalized = <<"h","p">>
             THEN "Heavily Played"
           ELSE IF includes(normalized, <<"d","a","m","a","g","e","d">>) \/ includes(normalized, <<"p","o","o","r">>)
             THEN "Heavily Played"
           ELSE "Near Mint"

\* OCRService.normalizeCondition; condition is <<string>> or <<>> (undefined)
normalizeCondition(condition) ==
  IF condition = <<>> \/ condition[1] = <<>> THEN Undefined
  ELSE LET normalized == trim(toLowerCase(condition[1]))
       IN  IF includes(normalized, <<"m","i","n",
           "t">>) /\ ~includes(normalized, <<"n","e","a","r">>)
             THEN "Mint"
           ELSE IF includes(normalized, <<"n","e","a","r"," ","m","i","n",
               "t">>) \/ normalized = <<"n","m">>
             THEN "Near Mint"
           ELSE IF includes(normalized, <<"l","i","g","h","t","l","y"," ","p",
               "l","a","y","e","d">>) \/ normalized = <<"l","p">>
             THEN "Lightly Played"
           ELSE IF includes(normalized, <<"m","o","d","e","r","a","t","e","l",
               "y"," ","p","l","a","y","e","d">>) \/ normalized = <<"m","p">>
             THEN "Moderately Played"
           ELSE IF includes(normalized, <<"h","e","a","v","i","l","y"," ","p",
               "l","a","y","e","d">>) \/ normalized = <<"h","p">>
             THEN "Heavily Played"
           ELSE IF includes(normalized, <<"d","a","m","a","g","e",
               "d">>) \/ includes(normalized, <<"p","o","o","r">>)
             THEN "Heavily Played"
           ELSE Undefined

\* calculateConfidence without Math.min(confidence, 1.0)
calculateConfidenceUncapped(cardName, setName, cardNumber) ==
  LET given(x) == x # <<>> /\ x[1] # <<>>
      c0 == 1
      c1 == IF given(cardName)
            THEN c0 + 4 + (IF \E k \in 1..Len(knownPokemon) :
                                includes(toLowerCase(cardName[1]), knownPokemon[k])
                           THEN 2 ELSE 0)
            ELSE c0
      c2 == IF given(setName) THEN c1 + 3 ELSE c1
      c3 == IF given(cardNumber)
            THEN c2 + 2 + (IF includes(cardNumber[1], <<"/">>) THEN 1 ELSE 0)
            ELSE c2
  IN  c3

\* OCRService.calculateConfidence, in tenths (the decimal sum; the rounding
\* error of the floating-point additions is not represented); each argument
\* is <<string>> or <<>> (undefined)
calculateConfidence(cardName, setName, cardNumber) ==
  LET given(x) == x # <<>> /\ x[1] # <<>>
      c0 == 1
      c1 == IF given(cardName)
            THEN c0 + 4 + (IF \E k \in 1..Len(knownPokemon) :
                                includes(toLowerCase(cardName[1]), knownPokemon[k])
                           THEN 2 ELSE 0)
            ELSE c0
      c2 == IF given(setName) THEN c1 + 3 ELSE c1
      c3 == IF given(cardNumber)
            THEN c2 + 2 + (IF includes(cardNumber[1], <<"/">>) THEN 1 ELSE 0)
            ELSE c2
  IN  IF c3 < 10 THEN c3 ELSE 10

\* the detection the loop of extractCardInfo builds for index i (from 0)
detectionAt(i, cardNames, sets, numbers, conditions, ocrResults) ==
  [cardName |-> at(cardNames, i),
   setName |-> orElse(at(sets, i), at(sets, 0)),
   cardNumber |-> orElse(at(numbers, i), at(numbers, 0)),
   condition |-> normalizeCondition(orElse(at(conditions, i), at(conditions, 0))),
   confidence |-> calculateConfidence(at(cardNames, i), at(sets, i), at(numbers, i)),
   boundingBox |-> ocrResults[1].boundingBox]

\* OCRService.extractCardInfo
extractCardInfo(ocrResults) ==
  IF Len(ocrResults) = 0 THEN <<>>
  ELSE LET allText == toLowerCase(join([k \in 1..Len(ocrResults) |-> ocrResults[k].text],
                                       <<" ">>))
           cardNames == extractCardNames(allText)
           sets == extractSets(allText)
           numbers == extractNumbers(allText)
           conditions == extractConditions(allText)
           maxDetections == IF Len(cardNames) > 1 THEN Len(cardNames) ELSE 1
       IN  [i \in 1..maxDetections |->
              detectionAt(i - 1, cardNames, sets, numbers, conditions, ocrResults)]

(* ------------------------------------------------------------------ *)
(* errors.ts: validateCardText                                         *)
(* ------------------------------------------------------------------ *)

\* max 10,000 characters
MaxCardTextLength == 10000

\* no error: the function returned
NoError == [name |-> "", message |-> "", code |-> "", statusCode |-> 0, field |-> ""]

\* new ValidationError(message, field)
ValidationError(message, field) ==
  [name |-> "ValidationError", message |-> message, code |-> "VALIDATION_ERROR",
   statusCode |-> 400, field |-> field]

\* validateCardText that looks at the length of the text without trimming
validateCardTextNoTrim(text) ==
  IF text = <<>> \/ text[1] = <<>> \/ Len(text[1]) = 0
  THEN [called |-> TRUE, threw |-> TRUE,
        error |-> ValidationError("Card list cannot be empty", "text")]
  ELSE IF Len(text[1]) > MaxCardTextLength
  THEN [called |-> TRUE, threw |-> TRUE,
        error |-> ValidationError("Card list is too long (max 10,000 characters)", "text")]
  ELSE [called |-> TRUE, threw |-> FALSE, error |-> NoError]

\* validateCardText(text); text is <<string>> or <<>> (undefined)
validateCardText(text) ==
  IF text = <<>> \/ text[1] = <<>> \/ Len(trim(text[1])) = 0
  THEN [called |-> TRUE, threw |-> TRUE,
        error |-> ValidationError("Card list cannot be empty", "text")]
  ELSE IF Len(text[1]) > MaxCardTextLength
  THEN [called |-> TRUE, threw |-> TRUE,
        error |-> ValidationError("Card list is too long (max 10,000 characters)", "text")]
  ELSE [called |-> TRUE, threw |-> FALSE, error |-> NoError]

(* ------------------------------------------------------------------ *)
(* Requests                                                            *)
(* ------------------------------------------------------------------ *)

\* the words a one-line request is made of
Vocabulary == <<
  \* 1: "Charizard"
  <<"C","h","a","r","i","z","a","r","d">>,
  \* 2: "Pikachu"
  <<"P","i","k","a","c","h","u">>,
  \* 3: "VMAX"
  <<"V","M","A","X">>,
  \* 4: "Base Set"
  <<"B","a","s","e"," ","S","e","t">>,
  \* 5: "Vivid Voltage"
  <<"V","i","v","i","d"," ","V","o","l","t","a","g","e">>,
  \* 6: "Near Mint"
  <<"N","e","a","r"," ","M","i","n","t">>,
  \* 7: "poor"
  <<"p","o","o","r">>,
  \* 8: "LP"
  <<"L","P">>,
  \* 9: "#58"
  <<"#","5","8">>,
  \* 10: "4/102"
  <<"4","/","1","0","2">>,
  \* 11: "random unrelated text xyz"
  <<"r","a","n","d","o","m"," ","u","n","r","e","l","a","t","e","d"," ","t","e","x","t"," ","x","y","z">> >>

TokenSeqs == UNION {[1..k -> 1..Len(Vocabulary)] : k \in 1..MaxTokens}

Fragment(ts) == join([i \in 1..Len(ts) |-> Vocabulary[ts[i]]], <<" ">>)

\* the name and the set of a catalogue entry, and nothing else
exactFragment(card) == card.name \o <<" ">> \o card.set

\* the examples of the page's text box, and lines with a name, a set and
\* a number
ExampleFragments == {
  \* "Charizard Base Set Near Mint"
  <<"C","h","a","r","i","z","a","r","d"," ","B","a","s","e"," ","S","e","t"," ","N","e","a","r"," ","M","i","n","t">>,
  \* "Pikachu Base Set #58"
  <<"P","i","k","a","c","h","u"," ","B","a","s","e"," ","S","e","t"," ","#","5","8">>,
  \* "Pikachu VMAX 044/185 Mint"
  <<"P","i","k","a","c","h","u"," ","V","M","A","X"," ","0","4","4","/","1","8","5"," ","M","i","n","t">>,
  \* "Blastoise Base Set Lightly Played"
  <<"B","l","a","s","t","o","i","s","e"," ","B","a","s","e"," ","S","e","t"," ","L","i","g","h","t","l","y"," ","P","l","a","y","e","d">>,
  \* "Venusaur 4/102"
  <<"V","e","n","u","s","a","u","r"," ","4","/","1","0","2">> }

\* a card name followed by one condition keyword, for every keyword of
\* the two paths
KeywordFragments ==
  {<<"C","h","a","r","i","z","a","r","d"," ">> \o conditionAlts[k] : k \in 1..Len(conditionAlts)}

Fragments ==
  {Fragment(ts) : ts \in TokenSeqs}
    \cup {exactFragment(MOCK_CARD_DATABASE[k]) : k \in 1..Len(MOCK_CARD_DATABASE)}
    \cup ExampleFragments
    \cup KeywordFragments

\* the lines a many-line request is made of
LinePool == <<
  \* 1: "Charizard Base Set"
  <<"C","h","a","r","i","z","a","r","d"," ","B","a","s","e"," ","S","e","t">>,
  \* 2: "random unrelated text xyz"
  <<"r","a","n","d","o","m"," ","u","n","r","e","l","a","t","e","d"," ","t","e","x","t"," ","x","y","z">>,
  \* 3: "  Pikachu #58 "
  <<" "," ","P","i","k","a","c","h","u"," ","#","5","8"," ">>,
  \* 4: "VMAX"
  <<"V","M","A","X">>,
  \* 5: "   "
  <<" "," "," ">> >>

LineSeqs == UNION {[1..k -> 1..Len(LinePool)] : k \in 1..MaxLines}

ManyLines == {join([i \in 1..Len(ls) |-> LinePool[ls[i]]],
    <<"\n">>) : ls \in LineSeqs}

\* the JSON bodies of the requests: a text, no text, a text that is not a
\* string, and a body that is not JSON
Bodies ==
  {[kind |-> "string", chars |-> t] : t \in Fragments \cup ManyLines \cup {<<>>}}
    \cup {[kind |-> k, chars |-> <<>>] : k \in {"undefined", "number", "malformed"}}

\* the values Math.random() may return
RandomSamples == {0, 1}

\* the largest number of text annotations the OCR provider returns
MaxAnnotations == 2

\* the texts of the annotations
AnnotationPool == <<
  \* 1: "Charizard VMAX"
  <<"C","h","a","r","i","z","a","r","d"," ","V","M","A","X">>,
  \* 2: "Pikachu"
  <<"P","i","k","a","c","h","u">>,
  \* 3: "Base Set"
  <<"B","a","s","e"," ","S","e","t">>,
  \* 4: "4/102"
  <<"4","/","1","0","2">>,
  \* 5: "Near Mint"
  <<"N","e","a","r"," ","M","i","n","t">>,
  \* 6: "Mint"
  <<"M","i","n","t">>,
  \* 7: "poor"
  <<"p","o","o","r">>,
  \* 8: "NM"
  <<"N","M">>,
  \* 9: "card#7"
  <<"c","a","r","d","#","7">>,
  \* 10: "hello world"
  <<"h","e","l","l","o"," ","w","o","r","l","d">> >>

AnnotationSeqs == UNION {[1..k -> 1..Len(AnnotationPool)] : k \in 0..MaxAnnotations}

\* the OCRResult of annotation a: Google Vision gives no confidence, the
\* service sets 0.9 (in tenths); the bounding box is told by the annotation
ocrResult(a) == [text |-> AnnotationPool[a], confidence |-> 9, boundingBox |-> a]

OcrInputs == {[k \in 1..Len(as) |-> ocrResult(as[k])] : as \in AnnotationSeqs}

NoBody == [kind |-> "none", chars |-> <<>>]

\* the requests in flight: a text request, an image whose OCR results are
\* handed to extractCardInfo, or one of each at the same time
PairFragments ==
  {Fragment(<<t, u>>) : t \in {1, 2}, u \in {4, 6, 7}}

PairOcrInputs == {<<ocrResult(a)>> : a \in 1..Len(AnnotationPool)}

Requests ==
  {[body |-> b, ocrResults |-> <<>>, text |-> TRUE, image |-> FALSE] : b \in Bodies}
    \cup {[body |-> NoBody, ocrResults |-> o, text |-> FALSE, image |-> TRUE] :
             o \in OcrInputs}
    \cup {[body |-> [kind |-> "string", chars |-> f], ocrResults |-> o,
            text |-> TRUE, image |-> TRUE] : f \in PairFragments, o \in PairOcrInputs}

(* ------------------------------------------------------------------ *)
(* The text route                                                      *)
(* ------------------------------------------------------------------ *)

VARIABLES
  body,            \* the request body
  pc,              \* the position of POST: idle, start, loop, wait, done
  ocrPc,           \* the position of the OCR service: idle, extract, extracted
  lines,           \* the non-blank lines of the text
  idx,             \* the line the loop is at
  processedCards,  \* the cards parsed so far
  unmatched,       \* the lines that parsed to null so far
  response,        \* the response of POST
  ocrResults,      \* the OCR results handed to extractCardInfo
  cardDetections   \* the detections extractCardInfo returns

VARIABLES
  validation,      \* what validateCardText did with the text of the request
  estimateArgs,    \* the arguments of a call of calculateConfidence
  estimate         \* what that call returned

VARIABLES
  maxRetries,      \* retryWithBackoff: the parameter maxRetries
  baseDelay,       \* the parameter baseDelay, in milliseconds
  attempt,         \* the loop variable
  lastError,       \* the local lastError: <<error>>, or <<>> while unassigned
  retryPc,         \* idle, loop, await, sleep, resolved, rejected
  fnCalls,         \* the errors and values of the calls of fn so far
  fnPending,       \* the calls of fn that have not settled
  waits,           \* the delays handed to setTimeout so far
  settled          \* how the promise of retryWithBackoff settled

VARIABLES
  imageBuffer,     \* processImage: the buffer it is called with
  apiKey,          \* this.apiKey: "" when no key is configured
  imagePc,         \* idle, start, provider, extract, done
  logged,          \* the errors handed to logError so far
  imageResult      \* how the promise of processImage settled

VARIABLES
  activeTab,       \* the page: the tab shown, upload or text
  uploadedImages,  \* the number of uploaded images
  textInput,       \* the text of the text box
  identifiedCards, \* the cards shown
  showOffer,       \* whether the offer is shown
  offerAccepted,   \* whether the offer was accepted
  loading,         \* the loading flag
  inFlight,        \* the fetches that have not settled, by endpoint
  alerted,         \* the text of the last alert, <<>> when there was none
  handlerCalls     \* the calls of processCards and processTextInput so far

routeVars == <<body, pc, ocrPc, lines, idx, processedCards, unmatched, response,
               ocrResults, cardDetections>>

libVars == <<validation, estimateArgs, estimate>>

retryVars == <<maxRetries, baseDelay, attempt, lastError, retryPc, fnCalls,
               fnPending, waits, settled>>

imageVars == <<imageBuffer, apiKey, imagePc, logged, imageResult>>

pageVars == <<activeTab, uploadedImages, textInput, identifiedCards, showOffer,
              offerAccepted, loading, inFlight, alerted, handlerCalls>>

vars == <<routeVars, libVars, retryVars, imageVars, pageVars>>

NoData == [present |-> FALSE]

NoResponse == [sent |-> FALSE, success |-> FALSE, status |-> 0, error |-> "", data |-> NoData]

errorResponse(status, error) ==
  [sent |-> TRUE, success |-> FALSE, status |-> status, error |-> error, data |-> NoData]

\* text.split('\n').filter(line => line.trim())
splitLines(text) == SelectSeq(split(text, "\n"), LAMBDA line : trim(line) # <<>>)

\* validateCardText has not been called
NoValidation == [called |-> FALSE, threw |-> FALSE, error |-> NoError]

\* calculateConfidence has not been called
NoArgs == [called |-> FALSE, cardName |-> <<>>, setName |-> <<>>, cardNumber |-> <<>>]

NoEstimate == [returned |-> FALSE, confidence |-> 0]

\* retryWithBackoff has not settled
Pending == [state |-> "pending", value |-> <<>>]

\* no request is in flight
RouteIdle ==
  /\ body = NoBody
  /\ ocrResults = <<>>
  /\ pc = "idle"
  /\ ocrPc = "idle"
  /\ cardDetections = <<>>
  /\ lines = <<>>
  /\ idx = 0
  /\ processedCards = <<>>
  /\ unmatched = <<>>
  /\ response = NoResponse

\* no call of calculateConfidence
EstimateIdle ==
  /\ estimateArgs = NoArgs
  /\ estimate = NoEstimate

\* no call of retryWithBackoff
RetryIdle ==
  /\ maxRetries = 0
  /\ baseDelay = 0
  /\ attempt = 0
  /\ lastError = <<>>
  /\ retryPc = "idle"
  /\ fnCalls = <<>>
  /\ fnPending = 0
  /\ waits = <<>>
  /\ settled = Pending

\* the buffer of a call that was not made
NoBuffer == [isNull |-> TRUE, length |-> 0, head |-> <<>>]

\* no call of processImage
ImageIdle ==
  /\ imageBuffer = NoBuffer
  /\ apiKey = ""
  /\ imagePc = "idle"
  /\ logged = <<>>
  /\ imageResult = Pending

\* the state of the page when it is first rendered
PageIdle ==
  /\ activeTab = "upload"
  /\ uploadedImages = 0
  /\ textInput = <<>>
  /\ identifiedCards = <<>>
  /\ showOffer = FALSE
  /\ offerAccepted = FALSE
  /\ loading = FALSE
  /\ inFlight = [text |-> 0, images |-> 0]
  /\ alerted = <<>>
  /\ handlerCalls = <<>>

Init ==
  /\ validation = NoValidation
  /\ EstimateIdle
  /\ RetryIdle
  /\ ImageIdle
  /\ PageIdle
  /\ \E r \in Requests :
       /\ body = r.body
       /\ ocrResults = r.ocrResults
       /\ pc = IF r.text THEN "start" ELSE "idle"
       /\ ocrPc = IF r.image THEN "extract" ELSE "idle"
  /\ cardDetections = <<>>
  /\ lines = <<>>
  /\ idx = 0
  /\ processedCards = <<>>
  /\ unmatched = <<>>
  /\ response = NoResponse

\* request.json() throws: the catch block answers 500
PostMalformed ==
  /\ pc = "start"
  /\ body.kind = "malformed"
  /\ response' = errorResponse(500, "Failed to process text")
  /\ pc' = "done"
  /\ UNCHANGED <<body, lines, idx, processedCards, unmatched,
               ocrPc, ocrResults, cardDetections>>
  /\ UNCHANGED <<libVars, retryVars>>
  /\ UNCHANGED <<imageVars, pageVars>>

\* if (!text || typeof text !== 'string'): 400
PostNoText ==
  /\ pc = "start"
  /\ body.kind # "malformed"
  /\ body.kind # "string" \/ body.chars = <<>>
  /\ response' = errorResponse(400, "No text provided")
  /\ pc' = "done"
  /\ UNCHANGED <<body, lines, idx, processedCards, unmatched,
               ocrPc, ocrResults, cardDetections>>
  /\ UNCHANGED <<libVars, retryVars>>
  /\ UNCHANGED <<imageVars, pageVars>>

\* PostNoLines answering with an empty success
PostNoLinesEmptySuccess ==
  /\ pc = "start"
  /\ body.kind = "string" /\ body.chars # <<>>
  /\ Len(splitLines(body.chars)) = 0
  /\ response' = [sent |-> TRUE, success |-> TRUE, status |-> 200, error |-> "",
                  data |-> [present |-> TRUE,
                            cards |-> <<>>,
                            totalLines |-> 0,
                            matched |-> 0,
                            unmatched |-> <<>>,
                            unmatchedLines |-> 0]]
  /\ pc' = "done"
  /\ UNCHANGED <<body, lines, idx, processedCards, unmatched,
               ocrPc, ocrResults, cardDetections>>
  /\ UNCHANGED <<libVars, retryVars>>
  /\ UNCHANGED <<imageVars, pageVars>>

\* the text is split; no line left: 400
PostNoLines ==
  /\ pc = "start"
  /\ body.kind = "string" /\ body.chars # <<>>
  /\ Len(splitLines(body.chars)) = 0
  /\ response' = errorResponse(400, "No valid card entries found")
  /\ pc' = "done"
  /\ UNCHANGED <<body, lines, idx, processedCards, unmatched,
               ocrPc, ocrResults, cardDetections>>
  /\ UNCHANGED <<libVars, retryVars>>
  /\ UNCHANGED <<imageVars, pageVars>>

\* the text is split and the loop over the lines starts
PostSplit ==
  /\ pc = "start"
  /\ body.kind = "string" /\ body.chars # <<>>
  /\ Len(splitLines(body.chars)) # 0
  /\ lines' = splitLines(body.chars)
  /\ idx' = 1
  /\ pc' = "loop"
  /\ UNCHANGED <<body, processedCards, unmatched, response,
               ocrPc, ocrResults, cardDetections>>
  /\ UNCHANGED <<libVars, retryVars>>
  /\ UNCHANGED <<imageVars, pageVars>>

\* PostLine without the else: every line is pushed to unmatched
PostLineNoElse ==
  /\ pc = "loop"
  /\ idx <= Len(lines)
  /\ \E random \in RandomSamples :
       LET line == lines[idx]
           parsedCard == parseCardLine(line, random)
       IN  /\ processedCards' = IF ~parsedCard.isNull
                                THEN Append(processedCards, parsedCard)
                                ELSE processedCards
           /\ unmatched' = Append(unmatched, trim(line))
  /\ idx' = idx + 1
  /\ UNCHANGED <<body, pc, lines, response,
               ocrPc, ocrResults, cardDetections>>
  /\ UNCHANGED <<libVars, retryVars>>
  /\ UNCHANGED <<imageVars, pageVars>>

\* PostLine with unshift for push: the newest card comes first
PostLineUnshift ==
  /\ pc = "loop"
  /\ idx <= Len(lines)
  /\ \E random \in RandomSamples :
       LET line == lines[idx]
           parsedCard == parseCardLine(line, random)
       IN  IF ~parsedCard.isNull
           THEN /\ processedCards' = <<parsedCard>> \o processedCards
                /\ UNCHANGED unmatched
           ELSE /\ unmatched' = <<trim(line)>> \o unmatched
                /\ UNCHANGED processedCards
  /\ idx' = idx + 1
  /\ UNCHANGED <<body, pc, lines, response,
               ocrPc, ocrResults, cardDetections>>
  /\ UNCHANGED <<libVars, retryVars>>
  /\ UNCHANGED <<imageVars, pageVars>>

\* one turn of for (const line of lines)
PostLine ==
  /\ pc = "loop"
  /\ idx <= Len(lines)
  /\ \E random \in RandomSamples :
       LET line == lines[idx]
           parsedCard == parseCardLine(line, random)
       IN  IF ~parsedCard.isNull
           THEN /\ processedCards' = Append(processedCards, parsedCard)
                /\ UNCHANGED unmatched
           ELSE /\ unmatched' = Append(unmatched, trim(line))
                /\ UNCHANGED processedCards
  /\ idx' = idx + 1
  /\ UNCHANGED <<body, pc, lines, response,
               ocrPc, ocrResults, cardDetections>>
  /\ UNCHANGED <<libVars, retryVars>>
  /\ UNCHANGED <<imageVars, pageVars>>

\* the loop is over: the route waits out its simulated processing time
PostWait ==
  /\ pc = "loop"
  /\ idx > Len(lines)
  /\ pc' = "wait"
  /\ UNCHANGED <<body, lines, idx, processedCards, unmatched, response,
               ocrPc, ocrResults, cardDetections>>
  /\ UNCHANGED <<libVars, retryVars>>
  /\ UNCHANGED <<imageVars, pageVars>>

\* the success response
PostRespond ==
  /\ pc = "wait"
  /\ response' = [sent |-> TRUE, success |-> TRUE, status |-> 200, error |-> "",
                  data |-> [present |-> TRUE,
                            cards |-> processedCards,
                            totalLines |-> Len(lines),
                            matched |-> Len(processedCards),
                            unmatched |-> unmatched,
                            unmatchedLines |-> Len(unmatched)]]
  /\ pc' = "done"
  /\ UNCHANGED <<body, lines, idx, processedCards, unmatched,
               ocrPc, ocrResults, cardDetections>>
  /\ UNCHANGED <<libVars, retryVars>>
  /\ UNCHANGED <<imageVars, pageVars>>

\* processImage hands the OCR results to extractCardInfo
ExtractCardInfo ==
  /\ ocrPc = "extract"
  /\ cardDetections' = extractCardInfo(ocrResults)
  /\ ocrPc' = "extracted"
  /\ UNCHANGED <<body, pc, lines, idx, processedCards, unmatched, response, ocrResults>>
  /\ UNCHANGED <<libVars, retryVars>>
  /\ UNCHANGED <<imageVars, pageVars>>

\* a caller validates the text it has posted
ValidateCardText ==
  /\ pc = "done"
  /\ body.kind \in {"string", "undefined"}
  /\ ~validation.called
  /\ validation' = validateCardText(IF body.kind = "string" THEN <<body.chars>> ELSE <<>>)
  /\ UNCHANGED <<routeVars, estimateArgs, estimate, retryVars>>
  /\ UNCHANGED <<imageVars, pageVars>>

Next ==
  \/ ExtractCardInfo
  \/ ValidateCardText
  \/ PostMalformed
  \/ PostNoText
  \/ PostNoLines
  \/ PostSplit
  \/ PostLine
  \/ PostWait
  \/ PostRespond

Spec == Init /\ [][Next]_vars

(* ------------------------------------------------------------------ *)
(* Calls of calculateConfidence                                        *)
(* ------------------------------------------------------------------ *)

\* the card names a caller hands to calculateConfidence
CardNameArgs == {
  \* undefined
  <<>>,
  \* the empty string
  << <<>> >>,
  \* "Charizard VMAX"
  << <<"C","h","a","r","i","z","a","r","d"," ","V","M","A","X">> >>,
  \* "charizard"
  << <<"c","h","a","r","i","z","a","r","d">> >>,
  \* "Pikachu"
  << <<"P","i","k","a","c","h","u">> >>,
  \* "mewtwo"
  << <<"m","e","w","t","w","o">> >>,
  \* "hello v"
  << <<"h","e","l","l","o"," ","v">> >>,
  \* "pikachus ex"
  << <<"p","i","k","a","c","h","u","s"," ","e","x">> >> }

\* the set names
SetNameArgs == {
  \* undefined
  <<>>,
  \* the empty string
  << <<>> >>,
  \* "Champion's Path"
  << <<"C","h","a","m","p","i","o","n","'","s"," ","P","a","t","h">> >>,
  \* "base set"
  << <<"b","a","s","e"," ","s","e","t">> >> }

\* the card numbers
CardNumberArgs == {
  \* undefined
  <<>>,
  \* the empty string
  << <<>> >>,
  \* "74/73"
  << <<"7","4","/","7","3">> >>,
  \* "4/102"
  << <<"4","/","1","0","2">> >>,
  \* "#58"
  << <<"#","5","8">> >>,
  \* "58"
  << <<"5","8">> >> }

InitConfidence ==
  /\ RouteIdle
  /\ validation = NoValidation
  /\ RetryIdle
  /\ ImageIdle
  /\ PageIdle
  /\ \E cardName \in CardNameArgs, setName \in SetNameArgs, cardNumber \in CardNumberArgs :
       estimateArgs = [called |-> TRUE, cardName |-> cardName, setName |-> setName,
                       cardNumber |-> cardNumber]
  /\ estimate = NoEstimate

\* the call returns
CalculateConfidence ==
  /\ estimateArgs.called
  /\ ~estimate.returned
  /\ estimate' = [returned |-> TRUE,
                  confidence |-> calculateConfidence(estimateArgs.cardName,
                                                     estimateArgs.setName,
                                                     estimateArgs.cardNumber)]
  /\ UNCHANGED <<routeVars, validation, estimateArgs, retryVars>>
  /\ UNCHANGED <<imageVars, pageVars>>

NextConfidence == CalculateConfidence

SpecConfidence == InitConfidence /\ [][NextConfidence]_vars

(* ------------------------------------------------------------------ *)
(* errors.ts: retryWithBackoff                                         *)
(* ------------------------------------------------------------------ *)

\* the largest maxRetries a caller passes
MaxMaxRetries == 4

\* maxRetries: number = 3
DefaultMaxRetries == 3

\* baseDelay: number = 1000
DefaultBaseDelay == 1000

\* the base delays a caller passes, in milliseconds
BaseDelays == {0, 250, DefaultBaseDelay}

\* the arguments of the calls: explicit ones, and the defaults
\* callGoogleVisionAPI relies on
RetryArgs ==
  {[maxRetries |-> m, baseDelay |-> d] : m \in 0..MaxMaxRetries, d \in BaseDelays}
    \cup {[maxRetries |-> DefaultMaxRetries, baseDelay |-> DefaultBaseDelay]}

\* what fn throws: the APIError of a response that is not ok, or the
\* TypeError of a fetch that failed
ErrorNames == {"APIError", "TypeError"}

\* what fn resolves with
FnValues == {"responses", "no responses"}

\* the error object thrown by the call number call of fn
thrown(name, call) == [name |-> name, call |-> call]

\* the calls of fn made so far
invocations == Len(fnCalls) + fnPending

\* the backoff with the exponent attempt + 1
backoffDelayEager(base, n) == base * 2 ^ (n + 1)

\* const delay = baseDelay * Math.pow(2, attempt)
backoffDelay(base, n) == base * 2 ^ n

InitRetry ==
  /\ RouteIdle
  /\ validation = NoValidation
  /\ EstimateIdle
  /\ ImageIdle
  /\ PageIdle
  /\ \E a \in RetryArgs :
       /\ maxRetries = a.maxRetries
       /\ baseDelay = a.baseDelay
  /\ attempt = 0
  /\ lastError = <<>>
  /\ retryPc = "start"
  /\ fnCalls = <<>>
  /\ fnPending = 0
  /\ waits = <<>>
  /\ settled = Pending

\* the loop is entered: attempt = 0 is below maxRetries and fn is called
RetryStart ==
  /\ retryPc = "start"
  /\ attempt < maxRetries
  /\ fnPending' = fnPending + 1
  /\ retryPc' = "await"
  /\ UNCHANGED <<routeVars, libVars, maxRetries, baseDelay, attempt, lastError,
                 fnCalls, waits, settled>>
  /\ UNCHANGED <<imageVars, pageVars>>

\* the loop is not entered: throw lastError!, which was never assigned
RetryNoAttempt ==
  /\ retryPc = "start"
  /\ ~(attempt < maxRetries)
  /\ settled' = [state |-> "rejected", value |-> lastError]
  /\ retryPc' = "rejected"
  /\ UNCHANGED <<routeVars, libVars, maxRetries, baseDelay, attempt, lastError,
                 fnCalls, fnPending, waits>>
  /\ UNCHANGED <<imageVars, pageVars>>

\* FnResolve without the return: the value is kept and the loop goes on
FnResolveContinue ==
  /\ retryPc = "await"
  /\ \E v \in FnValues :
       /\ fnCalls' = Append(fnCalls, [ok |-> TRUE, value |-> v])
       /\ IF attempt + 1 < maxRetries
          THEN /\ attempt' = attempt + 1
               /\ fnPending' = 1
               /\ UNCHANGED <<settled, retryPc>>
          ELSE /\ settled' = [state |-> "resolved", value |-> <<v>>]
               /\ retryPc' = "resolved"
               /\ fnPending' = 0
               /\ UNCHANGED attempt
  /\ UNCHANGED <<routeVars, libVars, maxRetries, baseDelay, lastError, waits>>
  /\ UNCHANGED <<imageVars, pageVars>>

\* fn resolves: return await fn()
FnResolve ==
  /\ retryPc = "await"
  /\ \E v \in FnValues :
       /\ fnCalls' = Append(fnCalls, [ok |-> TRUE, value |-> v])
       /\ settled' = [state |-> "resolved", value |-> <<v>>]
  /\ fnPending' = fnPending - 1
  /\ retryPc' = "resolved"
  /\ UNCHANGED <<routeVars, libVars, maxRetries, baseDelay, attempt, lastError, waits>>
  /\ UNCHANGED <<imageVars, pageVars>>

\* fn rejects in the last attempt: throw lastError
FnRejectLast ==
  /\ retryPc = "await"
  /\ attempt = maxRetries - 1
  /\ \E name \in ErrorNames :
       LET error == thrown(name, invocations)
       IN  /\ fnCalls' = Append(fnCalls, [ok |-> FALSE, value |-> error])
           /\ lastError' = <<error>>
           /\ settled' = [state |-> "rejected", value |-> <<error>>]
  /\ fnPending' = fnPending - 1
  /\ retryPc' = "rejected"
  /\ UNCHANGED <<routeVars, libVars, maxRetries, baseDelay, attempt, waits>>
  /\ UNCHANGED <<imageVars, pageVars>>

\* fn rejects in an earlier attempt: the timer of the backoff is set
FnRejectBackoff ==
  /\ retryPc = "await"
  /\ attempt # maxRetries - 1
  /\ \E name \in ErrorNames :
       LET error == thrown(name, invocations)
       IN  /\ fnCalls' = Append(fnCalls, [ok |-> FALSE, value |-> error])
           /\ lastError' = <<error>>
  /\ fnPending' = fnPending - 1
  /\ waits' = Append(waits, backoffDelay(baseDelay, attempt))
  /\ retryPc' = "sleep"
  /\ UNCHANGED <<routeVars, libVars, maxRetries, baseDelay, attempt, settled>>
  /\ UNCHANGED <<imageVars, pageVars>>

\* the timer fires: attempt++, and fn is called again if attempt is still
\* below maxRetries; if it is not, throw lastError! after the loop
RetryWake ==
  /\ retryPc = "sleep"
  /\ attempt' = attempt + 1
  /\ IF attempt + 1 < maxRetries
     THEN /\ fnPending' = fnPending + 1
          /\ retryPc' = "await"
          /\ UNCHANGED settled
     ELSE /\ settled' = [state |-> "rejected", value |-> lastError]
          /\ retryPc' = "rejected"
          /\ UNCHANGED fnPending
  /\ UNCHANGED <<routeVars, libVars, maxRetries, baseDelay, lastError, fnCalls, waits>>
  /\ UNCHANGED <<imageVars, pageVars>>

NextRetry ==
  \/ RetryStart
  \/ RetryNoAttempt
  \/ FnResolve
  \/ FnRejectLast
  \/ FnRejectBackoff
  \/ RetryWake

SpecRetry == InitRetry /\ [][NextRetry]_vars

(* ------------------------------------------------------------------ *)
(* OCRService.processImage                                             *)
(* ------------------------------------------------------------------ *)

\* const maxSize = 10 * 1024 * 1024
maxSize == 10 * 1024 * 1024

\* Buffer.from([0x89, 0x50, 0x4E, 0x47, 0x0D, 0x0A, 0x1A, 0x0A])
PngSignature == <<137, 80, 78, 71, 13, 10, 26, 10>>

\* Buffer.from([0xFF, 0xD8])
JpegSignature == <<255, 216>>

\* Buffer.from([0x52, 0x49, 0x46, 0x46])
RiffSignature == <<82, 73, 70, 70>>

\* Buffer.from([0x57, 0x45, 0x42, 0x50])
WebpSignature == <<87, 69, 66, 80>>

\* new InvalidImageError(message)
InvalidImageError(message) ==
  [name |-> "InvalidImageError", message |-> message, code |-> "INVALID_IMAGE",
   statusCode |-> 400, field |-> Undefined]

\* new OCRError(message)
OCRError(message) ==
  [name |-> "OCRError", message |-> message, code |-> "OCR_ERROR",
   statusCode |-> 500, field |-> Undefined]

\* the TypeError of reading a property of undefined
TypeErrorOfUndefined ==
  [name |-> "TypeError", message |-> "Cannot read properties of undefined",
   code |-> Undefined, statusCode |-> 0, field |-> Undefined]

\* imageBuffer.subarray(from, to) of a buffer whose first bytes are head;
\* the end is clamped to the length of the buffer
subarray(buffer, from, to) ==
  SubSeq(buffer.head, from + 1, IF to < Len(buffer.head) THEN to ELSE Len(buffer.head))

\* OCRService.validateImage: the error it throws, or NoError
validateImage(buffer) ==
  IF buffer.isNull \/ buffer.length = 0
  THEN InvalidImageError("Image buffer is empty")
  ELSE IF buffer.length > maxSize
  THEN InvalidImageError("Image size exceeds 10MB limit")
  ELSE LET isPNG == subarray(buffer, 0, 8) = PngSignature
           isJPEG == subarray(buffer, 0, 2) = JpegSignature
           isWebP == /\ subarray(buffer, 0, 4) = RiffSignature
                     /\ subarray(buffer, 8, 12) = WebpSignature
       IN  IF ~isPNG /\ ~isJPEG /\ ~isWebP
           THEN InvalidImageError("Invalid image format. Only PNG, JPEG, and WebP are supported")
           ELSE NoError

\* OCRService.getMockOCRResult; the confidences in hundredths
getMockOCRResult ==
  [cardDetections |->
     << [cardName |-> << <<"C","h","a","r","i","z","a","r","d"," ","V","M","A","X">> >>,
         setName |-> << <<"C","h","a","m","p","i","o","n","'","s"," ","P","a","t","h">> >>,
         cardNumber |-> << <<"7","4","/","7","3">> >>,
         condition |-> "Near Mint",
         confidence |-> 90,
         boundingBox |-> [x |-> 50, y |-> 30, width |-> 200, height |-> 320]] >>,
   ocrResults |->
     << [text |-> <<"C","h","a","r","i","z","a","r","d"," ","V","M","A","X">>, confidence |-> 95,
         boundingBox |-> [x |-> 50, y |-> 30, width |-> 200, height |-> 40]],
        [text |-> <<"C","h","a","m","p","i","o","n","'","s"," ","P","a","t","h">>, confidence |-> 88,
         boundingBox |-> [x |-> 50, y |-> 80, width |-> 150, height |-> 25]],
        [text |-> <<"7","4","/","7","3">>, confidence |-> 92,
         boundingBox |-> [x |-> 200, y |-> 300, width |-> 60, height |-> 20]],
        [text |-> <<"N","e","a","r"," ","M","i","n","t">>, confidence |-> 85,
         boundingBox |-> [x |-> 50, y |-> 350, width |-> 100, height |-> 20]] >>,
   processingTime |-> 150]

\* the first twelve bytes of the images handed to processImage
ImageHeads == {
  \* a PNG file
  <<137, 80, 78, 71, 13, 10, 26, 10, 0, 0, 0, 13>>,
  \* a JPEG file
  <<255, 216, 255, 224, 0, 16, 74, 70, 73, 70, 0, 1>>,
  \* a WebP file
  <<82, 73, 70, 70, 36, 0, 0, 0, 87, 69, 66, 80>>,
  \* a WAVE file: RIFF, but not WebP
  <<82, 73, 70, 70, 36, 0, 0, 0, 87, 65, 86, 69>>,
  \* a GIF file
  <<71, 73, 70, 56, 57, 97, 1, 0, 1, 0, 128, 0>> }

\* images shorter than twelve bytes
ShortImages == {
  \* the two bytes of the JPEG signature
  <<255, 216>>,
  \* the PNG signature cut after seven bytes
  <<137, 80, 78, 71, 13, 10, 26>>,
  \* RIFF and nothing else
  <<82, 73, 70, 70>> }

\* the buffers: null, empty, short, of twelve bytes, of 10MB and of one
\* byte more
ImageBuffers ==
  {NoBuffer, [isNull |-> FALSE, length |-> 0, head |-> <<>>]}
    \cup {[isNull |-> FALSE, length |-> Len(h), head |-> h] : h \in ShortImages}
    \cup {[isNull |-> FALSE, length |-> n, head |-> h] :
            h \in ImageHeads, n \in {12, maxSize, maxSize + 1}}

\* process.env.GOOGLE_VISION_API_KEY || ''
ApiKeys == {"", "key"}

\* response.responses[0] of the provider: an error, no textAnnotations,
\* or annotations
VisionResponses ==
  {[error |-> <<"quota exceeded">>, textAnnotations |-> <<>>]}
    \cup {[error |-> <<>>, textAnnotations |-> o] : o \in PairOcrInputs \cup {<<>>}}

\* Date.now() - startTime, in milliseconds
Elapsed == {0, 150}

InitImage ==
  /\ RouteIdle
  /\ validation = NoValidation
  /\ EstimateIdle
  /\ RetryIdle
  /\ PageIdle
  /\ imageBuffer \in ImageBuffers
  /\ apiKey \in ApiKeys
  /\ imagePc = "start"
  /\ logged = <<>>
  /\ imageResult = Pending

\* the catch block of processImage: logError(error, ...) and throw error
caught(error) ==
  /\ logged' = Append(logged, error)
  /\ imageResult' = [state |-> "rejected", value |-> <<error>>]
  /\ imagePc' = "done"

\* validateImage throws
ImageInvalid ==
  /\ imagePc = "start"
  /\ validateImage(imageBuffer) # NoError
  /\ caught(validateImage(imageBuffer))
  /\ UNCHANGED <<routeVars, libVars, retryVars, pageVars, imageBuffer, apiKey>>

\* ImageMock without the validation in front of it
ImageMockUnvalidated ==
  /\ imagePc = "start"
  /\ apiKey = ""
  /\ imageResult' = [state |-> "resolved", value |-> <<getMockOCRResult>>]
  /\ imagePc' = "done"
  /\ UNCHANGED <<routeVars, libVars, retryVars, pageVars, imageBuffer, apiKey, logged>>

\* the image is valid and there is no API key: the mock result
ImageMock ==
  /\ imagePc = "start"
  /\ validateImage(imageBuffer) = NoError
  /\ apiKey = ""
  /\ imageResult' = [state |-> "resolved", value |-> <<getMockOCRResult>>]
  /\ imagePc' = "done"
  /\ UNCHANGED <<routeVars, libVars, retryVars, pageVars, imageBuffer, apiKey, logged>>

\* the image is valid and there is a key: callGoogleVisionAPI calls
\* retryWithBackoff with its default parameters
ImageCallProvider ==
  /\ imagePc = "start"
  /\ validateImage(imageBuffer) = NoError
  /\ apiKey # ""
  /\ maxRetries' = DefaultMaxRetries
  /\ baseDelay' = DefaultBaseDelay
  /\ retryPc' = "start"
  /\ imagePc' = "provider"
  /\ UNCHANGED <<routeVars, libVars, pageVars, attempt, lastError, fnCalls, fnPending,
                 waits, settled, imageBuffer, apiKey, logged, imageResult>>

\* retryWithBackoff rejects: callGoogleVisionAPI throws the same error
ImageProviderFailed ==
  /\ imagePc = "provider"
  /\ settled.state = "rejected"
  /\ caught(settled.value[1])
  /\ UNCHANGED <<routeVars, libVars, retryVars, pageVars, imageBuffer, apiKey>>

\* the provider answers with an empty responses array:
\* response.responses[0] is undefined and visionResponse.error throws
ImageNoResponse ==
  /\ imagePc = "provider"
  /\ settled = [state |-> "resolved", value |-> <<"no responses">>]
  /\ caught(TypeErrorOfUndefined)
  /\ UNCHANGED <<routeVars, libVars, retryVars, pageVars, imageBuffer, apiKey>>

\* visionResponse.error is set: throw new OCRError
ImageVisionError ==
  /\ imagePc = "provider"
  /\ settled = [state |-> "resolved", value |-> <<"responses">>]
  /\ \E visionResponse \in VisionResponses :
       /\ visionResponse.error # <<>>
       /\ caught(OCRError(visionResponse.error[1]))
  /\ UNCHANGED <<routeVars, libVars, retryVars, pageVars, imageBuffer, apiKey>>

\* the annotations are mapped to OCR results and handed to
\* extractCardInfo; processImage returns
ImageExtract ==
  /\ imagePc = "provider"
  /\ settled = [state |-> "resolved", value |-> <<"responses">>]
  /\ \E visionResponse \in VisionResponses, processingTime \in Elapsed :
       /\ visionResponse.error = <<>>
       /\ imageResult' =
            [state |-> "resolved",
             value |-> << [cardDetections |-> extractCardInfo(visionResponse.textAnnotations),
                           ocrResults |-> visionResponse.textAnnotations,
                           processingTime |-> processingTime] >>]
  /\ imagePc' = "done"
  /\ UNCHANGED <<routeVars, libVars, retryVars, pageVars, imageBuffer, apiKey, logged>>

NextImage ==
  \/ ImageInvalid
  \/ ImageMock
  \/ ImageCallProvider
  \/ RetryStart
  \/ FnResolve
  \/ FnRejectLast
  \/ FnRejectBackoff
  \/ RetryWake
  \/ ImageProviderFailed
  \/ ImageNoResponse
  \/ ImageVisionError
  \/ ImageExtract

SpecImage == InitImage /\ [][NextImage]_vars

(* ------------------------------------------------------------------ *)
(* The page component Home                                             *)
(* ------------------------------------------------------------------ *)

\* the largest number of images the user uploads
MaxImages == 1

\* the largest number of calls of the two handlers in one behaviour
MaxHandlerCalls == 2

\* the texts the user types into the text box: nothing, blanks, one line
PageTexts == {<<>>, <<" ", "\n", " ">>, LinePool[1]}

\* the card lists a response carries
ResultCards == {<<>>, <<parseCardLine(LinePool[1], 0)>>}

\* the JSON a fetch resolves with: a success with its data, or
\* success = false with an error
FetchResults ==
  {[success |-> TRUE, cards |-> cs, unmatchedLines |-> u, error |-> ""] :
     cs \in ResultCards, u \in {0, 1}}
    \cup {[success |-> FALSE, cards |-> <<>>, unmatchedLines |-> 0, error |-> e] :
            e \in {"No valid card entries found", "Failed to process text"}}

\* the offer is not shown: the tabs and the two submit buttons are
mainView == ~offerAccepted /\ ~showOffer

\* !textInput.trim()
noText == trim(textInput) = <<>>

InitPage ==
  /\ RouteIdle
  /\ validation = NoValidation
  /\ EstimateIdle
  /\ RetryIdle
  /\ ImageIdle
  /\ PageIdle

\* onClick={() => setActiveTab(...)}
SetActiveTab ==
  /\ mainView
  /\ activeTab' = IF activeTab = "upload" THEN "text" ELSE "upload"
  /\ UNCHANGED <<routeVars, libVars, retryVars, imageVars, uploadedImages, textInput,
                 identifiedCards, showOffer, offerAccepted, loading, inFlight, alerted,
                 handlerCalls>>

\* handleImageUpload with one file
HandleImageUpload ==
  /\ mainView
  /\ activeTab = "upload"
  /\ uploadedImages < MaxImages
  /\ uploadedImages' = uploadedImages + 1
  /\ UNCHANGED <<routeVars, libVars, retryVars, imageVars, activeTab, textInput,
                 identifiedCards, showOffer, offerAccepted, loading, inFlight, alerted,
                 handlerCalls>>

\* removeImage
RemoveImage ==
  /\ mainView
  /\ activeTab = "upload"
  /\ uploadedImages > 0
  /\ uploadedImages' = uploadedImages - 1
  /\ UNCHANGED <<routeVars, libVars, retryVars, imageVars, activeTab, textInput,
                 identifiedCards, showOffer, offerAccepted, loading, inFlight, alerted,
                 handlerCalls>>

\* onChange={(e) => setTextInput(e.target.value)}
SetTextInput ==
  /\ mainView
  /\ activeTab = "text"
  /\ \E t \in PageTexts \ {textInput} : textInput' = t
  /\ UNCHANGED <<routeVars, libVars, retryVars, imageVars, activeTab, uploadedImages,
                 identifiedCards, showOffer, offerAccepted, loading, inFlight, alerted,
                 handlerCalls>>

\* a click on the button of the upload tab, which is disabled when
\* uploadedImages.length === 0 || loading: processCards up to its fetch
ProcessCards ==
  /\ mainView
  /\ activeTab = "upload"
  /\ ~(uploadedImages = 0 \/ loading)
  /\ Len(handlerCalls) < MaxHandlerCalls
  /\ handlerCalls' = Append(handlerCalls, "processCards")
  /\ loading' = TRUE
  /\ inFlight' = [inFlight EXCEPT !.images = @ + 1]
  /\ UNCHANGED <<routeVars, libVars, retryVars, imageVars, activeTab, uploadedImages,
                 textInput, identifiedCards, showOffer, offerAccepted, alerted>>

\* a click on the button of the text tab, which is disabled when
\* !textInput.trim() || loading: processTextInput up to its fetch
ProcessTextInput ==
  /\ mainView
  /\ activeTab = "text"
  /\ ~(noText \/ loading)
  /\ Len(handlerCalls) < MaxHandlerCalls
  /\ handlerCalls' = Append(handlerCalls, "processTextInput")
  /\ loading' = TRUE
  /\ inFlight' = [inFlight EXCEPT !.text = @ + 1]
  /\ UNCHANGED <<routeVars, libVars, retryVars, imageVars, activeTab, uploadedImages,
                 textInput, identifiedCards, showOffer, offerAccepted, alerted>>

\* processTextInput run on a text that trims to nothing (the button is
\* disabled for such a text; a call from elsewhere): if (!textInput.trim())
\* return
ProcessTextInputBlank ==
  /\ noText
  /\ Len(handlerCalls) < MaxHandlerCalls
  /\ handlerCalls' = Append(handlerCalls, "processTextInput")
  /\ UNCHANGED <<routeVars, libVars, retryVars, imageVars, activeTab, uploadedImages,
                 textInput, identifiedCards, showOffer, offerAccepted, loading, inFlight,
                 alerted>>

\* the fetch of processCards resolves with success
PageImagesSuccess ==
  /\ inFlight.images > 0
  /\ \E result \in FetchResults :
       /\ result.success
       /\ identifiedCards' = result.cards
  /\ showOffer' = TRUE
  /\ loading' = FALSE
  /\ inFlight' = [inFlight EXCEPT !.images = @ - 1]
  /\ UNCHANGED <<routeVars, libVars, retryVars, imageVars, activeTab, uploadedImages,
                 textInput, offerAccepted, alerted, handlerCalls>>

\* the fetch of processCards resolves with success = false
PageImagesFailure ==
  /\ inFlight.images > 0
  /\ \E result \in FetchResults :
       /\ ~result.success
       /\ alerted' = <<"Error processing images: ", result.error>>
  /\ loading' = FALSE
  /\ inFlight' = [inFlight EXCEPT !.images = @ - 1]
  /\ UNCHANGED <<routeVars, libVars, retryVars, imageVars, activeTab, uploadedImages,
                 textInput, identifiedCards, showOffer, offerAccepted, handlerCalls>>

\* setLoading(false) as the last statement of the try block: a request
\* that throws leaves loading as it is
PageImagesThrowsInsideTry ==
  /\ inFlight.images > 0
  /\ inFlight' = [inFlight EXCEPT !.images = @ - 1]
  /\ alerted' = <<"Failed to process images. Please try again.">>
  /\ UNCHANGED <<routeVars, libVars, retryVars, imageVars, activeTab, uploadedImages,
                 textInput, identifiedCards, showOffer, offerAccepted, loading,
                 handlerCalls>>

\* the fetch of processCards rejects, or response.json() or result.data
\* throws: the catch block
PageImagesThrows ==
  /\ inFlight.images > 0
  /\ inFlight' = [inFlight EXCEPT !.images = @ - 1]
  /\ alerted' = <<"Failed to process images. Please try again.">>
  /\ loading' = FALSE
  /\ UNCHANGED <<routeVars, libVars, retryVars, imageVars, activeTab, uploadedImages,
                 textInput, identifiedCards, showOffer, offerAccepted, handlerCalls>>

\* the fetch of processTextInput resolves with success
PageTextSuccess ==
  /\ inFlight.text > 0
  /\ \E result \in FetchResults :
       /\ result.success
       /\ identifiedCards' = result.cards
       /\ alerted' = IF result.unmatchedLines > 0
                     THEN <<"Note: lines couldn't be matched", result.unmatchedLines>>
                     ELSE alerted
  /\ showOffer' = TRUE
  /\ loading' = FALSE
  /\ inFlight' = [inFlight EXCEPT !.text = @ - 1]
  /\ UNCHANGED <<routeVars, libVars, retryVars, imageVars, activeTab, uploadedImages,
                 textInput, offerAccepted, handlerCalls>>

\* the fetch of processTextInput resolves with success = false
PageTextFailure ==
  /\ inFlight.text > 0
  /\ \E result \in FetchResults :
       /\ ~result.success
       /\ alerted' = <<"Error processing text: ", result.error>>
  /\ loading' = FALSE
  /\ inFlight' = [inFlight EXCEPT !.text = @ - 1]
  /\ UNCHANGED <<routeVars, libVars, retryVars, imageVars, activeTab, uploadedImages,
                 textInput, identifiedCards, showOffer, offerAccepted, handlerCalls>>

\* the fetch of processTextInput rejects, or response.json() or
\* result.data throws: the catch block
PageTextThrows ==
  /\ inFlight.text > 0
  /\ inFlight' = [inFlight EXCEPT !.text = @ - 1]
  /\ alerted' = <<"Failed to process card list. Please try again.">>
  /\ loading' = FALSE
  /\ UNCHANGED <<routeVars, libVars, retryVars, imageVars, activeTab, uploadedImages,
                 textInput, identifiedCards, showOffer, offerAccepted, handlerCalls>>

\* acceptOffer
AcceptOffer ==
  /\ showOffer
  /\ ~offerAccepted
  /\ offerAccepted' = TRUE
  /\ UNCHANGED <<routeVars, libVars, retryVars, imageVars, activeTab, uploadedImages,
                 textInput, identifiedCards, showOffer, loading, inFlight, alerted,
                 handlerCalls>>

\* onClick={() => setShowOffer(false)}
HideOffer ==
  /\ showOffer
  /\ ~offerAccepted
  /\ showOffer' = FALSE
  /\ UNCHANGED <<routeVars, libVars, retryVars, imageVars, activeTab, uploadedImages,
                 textInput, identifiedCards, offerAccepted, loading, inFlight, alerted,
                 handlerCalls>>

\* a fetch settles
FetchSettles ==
  \/ PageImagesSuccess
  \/ PageImagesFailure
  \/ PageImagesThrows
  \/ PageTextSuccess
  \/ PageTextFailure
  \/ PageTextThrows

NextPage ==
  \/ SetActiveTab
  \/ HandleImageUpload
  \/ RemoveImage
  \/ SetTextInput
  \/ ProcessCards
  \/ ProcessTextInput
  \/ ProcessTextInputBlank
  \/ PageImagesSuccess
  \/ PageImagesFailure
  \/ PageImagesThrows
  \/ PageTextSuccess
  \/ PageTextFailure
  \/ PageTextThrows
  \/ AcceptOffer
  \/ HideOffer

\* every fetch settles in the end: it resolves or it rejects
SpecPage == InitPage /\ [][NextPage]_vars /\ WF_vars(FetchSettles)

(* ------------------------------------------------------------------ *)
(* Properties of the text route                                        *)
(* ------------------------------------------------------------------ *)

Range(seq) == {seq[k] : k \in 1..Len(seq)}

count(seq, t) == Cardinality({k \in 1..Len(seq) : seq[k] = t})

\* the lines the loop has dealt with, trimmed
doneLines == [k \in 1..(idx - 1) |-> trim(lines[k])]

\* the source lines of the cards, in the order of the cards
cardTexts == [k \in 1..Len(processedCards) |-> processedCards[k].originalText]

\* the score of every catalogue entry for the trimmed line t
lineScores(t) ==
  LET lower == toLowerCase(t)
      number == extractCardNumber(t)
  IN  [e \in 1..Len(MOCK_CARD_DATABASE) |-> cardScore(MOCK_CARD_DATABASE[e], lower, number)]

\* the catalogue position of the entry a card was made from
entryOf(c) == CHOOSE e \in 1..Len(MOCK_CARD_DATABASE) : MOCK_CARD_DATABASE[e].id = c.id[1]

\* the number of lines of a text that are not blank
nonBlankLines(text) ==
  LET all == split(text, "\n")
  IN  Cardinality({k \in 1..Len(all) : \E j \in 1..Len(all[k]) : all[k][j] \notin Whitespace})

TextRandom == <<"r","a","n","d","o","m"," ","u","n","r","e","l","a","t","e","d"," ","t","e","x","t"," ","x","y","z">>

TextBaseSet == <<"B","a","s","e"," ","S","e","t">>

\* C1: every non-blank line the text route has processed is in exactly one
\* of the two outputs, as the originalText of one card or as one entry of
\* unmatched, never in both and never in neither; a text with a non-blank
\* line is answered with success, and there totalLines = matched +
\* unmatchedLines.
C1_ExactlyOne ==
  /\ \A k \in 1..Len(doneLines) :
       LET t == doneLines[k]
       IN  /\ count(cardTexts, t) + count(unmatched, t) = count(doneLines, t)
           /\ ~(t \in Range(cardTexts) /\ t \in Range(unmatched))
  /\ Len(cardTexts) + Len(unmatched) = Len(doneLines)
  /\ pc \in {"loop", "wait", "done"} /\ body.kind = "string"
       => Len(lines) = nonBlankLines(body.chars)
  /\ pc = "done" /\ body.kind = "string" /\ nonBlankLines(body.chars) >= 1
       => /\ response.success
          /\ Len(doneLines) = Len(lines)
          /\ response.data.cards = processedCards
          /\ response.data.unmatched = unmatched
          /\ response.data.totalLines = Len(lines)
          /\ response.data.totalLines
               = response.data.matched + response.data.unmatchedLines

\* a request with a blank line, a matched line and an unmatched line is answered
C1_Witness ==
  /\ pc = "done"
  /\ response.success
  /\ Len(split(body.chars, "\n")) > Len(lines)
  /\ response.data.matched >= 1
  /\ response.data.unmatchedLines >= 1

\* C2: the cards are in the order of their source lines and the unmatched
\* lines are in the order of the input: each output is the input with the
\* lines of the other output left out.
C2_OrderPreserved ==
  LET inCards(t) == t \in Range(cardTexts)
      notInCards(t) == t \notin Range(cardTexts)
  IN  /\ cardTexts = SelectSeq(doneLines, inCards)
      /\ unmatched = SelectSeq(doneLines, notInCards)

\* input [a, b, c] with a and c matching different cards and b not matching
C2_Witness ==
  /\ pc = "done"
  /\ Len(lines) = 3
  /\ Len(processedCards) = 2
  /\ processedCards[1].originalText = trim(lines[1])
  /\ processedCards[2].originalText = trim(lines[3])
  /\ processedCards[1].name # processedCards[2].name
  /\ unmatched = <<trim(lines[2])>>

\* C3: a line that scores below 2 against every catalogue entry gets no
\* card and is placed in unmatched; a card is returned only for a best
\* score of at least 2; "random unrelated text xyz" is unmatched.
C3_BelowThresholdUnmatched ==
  /\ \A k \in 1..Len(doneLines) :
       LET t == doneLines[k]
           sc == lineScores(t)
       IN  (\A e \in 1..Len(MOCK_CARD_DATABASE) : sc[e] < 2)
             => t \in Range(unmatched) /\ t \notin Range(cardTexts)
  /\ \A k \in 1..Len(processedCards) :
       LET c == processedCards[k]
           sc == lineScores(c.originalText)
       IN  /\ c.confidence.num >= 2
           /\ \E e \in 1..Len(MOCK_CARD_DATABASE) : sc[e] >= 2
  /\ TextRandom \in Range(doneLines)
       => TextRandom \in Range(unmatched) /\ TextRandom \notin Range(cardTexts)

\* "random unrelated text xyz" and a line whose best score is 1 are unmatched
C3_Witness ==
  /\ pc = "done"
  /\ TextRandom \in Range(unmatched)
  /\ \E k \in 1..Len(unmatched) :
       LET sc == lineScores(unmatched[k])
       IN  /\ \E e \in 1..Len(MOCK_CARD_DATABASE) : sc[e] = 1
           /\ \A e \in 1..Len(MOCK_CARD_DATABASE) : sc[e] <= 1

\* C4: the card returned for a line is made from the catalogue entry with
\* the highest score, and among entries with the highest score from the
\* first in catalogue order; a line "Base Set" gives the first Base Set
\* entry, Charizard.
C4_FirstHighestWins ==
  \A k \in 1..Len(processedCards) :
    LET c == processedCards[k]
        sc == lineScores(c.originalText)
        b == entryOf(c)
    IN  /\ \A e \in 1..Len(MOCK_CARD_DATABASE) : sc[e] <= sc[b]
        /\ \A e \in 1..(b - 1) : sc[e] < sc[b]
        /\ c.confidence.num = sc[b]
        /\ c.name = MOCK_CARD_DATABASE[b].name
        /\ c.originalText = TextBaseSet => b = 1

\* the line "Base Set", where five entries share the highest score
C4_Witness ==
  /\ pc = "done"
  /\ \E k \in 1..Len(processedCards) :
       /\ processedCards[k].originalText = TextBaseSet
       /\ processedCards[k].name = <<"C","h","a","r","i","z","a","r","d">>
       /\ LET sc == lineScores(TextBaseSet)
          IN  Cardinality({e \in 1..Len(MOCK_CARD_DATABASE) : sc[e] = 2}) = 5

\* C5: for every catalogue entry E the line E.name + " " + E.set gets a
\* card made from E itself, with a score of at least 5.
C5_ExactNameAndSet ==
  \A e \in 1..Len(MOCK_CARD_DATABASE) :
    \A k \in 1..Len(doneLines) :
      doneLines[k] = exactFragment(MOCK_CARD_DATABASE[e])
        => /\ doneLines[k] \in Range(cardTexts)
           /\ \A j \in 1..Len(processedCards) :
                processedCards[j].originalText = doneLines[k]
                  => /\ processedCards[j].id[1] = MOCK_CARD_DATABASE[e].id
                     /\ processedCards[j].name = MOCK_CARD_DATABASE[e].name
                     /\ processedCards[j].number = MOCK_CARD_DATABASE[e].number
                     /\ processedCards[j].confidence.num >= 5

\* "Pikachu Base Set": the name is also a word of the entry Pikachu VMAX and
\* the set is that of four other entries
C5_Witness ==
  /\ pc = "done"
  /\ \E j \in 1..Len(processedCards) :
       /\ processedCards[j].originalText = exactFragment(MOCK_CARD_DATABASE[5])
       /\ processedCards[j].id[1] = 5

\* the terms of the score as the specification lists them, for the
\* lower-cased line lower and the extracted card number number
nameTerm(card, lower) == IF includes(lower, toLowerCase(card.name)) THEN 3 ELSE 0

setTerm(card, lower) == IF includes(lower, toLowerCase(card.set)) THEN 2 ELSE 0

numberTerm(card, number) ==
  IF number # <<>> /\ includes(card.number, number) THEN 2 ELSE 0

wordsTerm(card, lower) ==
  LET words == split(toLowerCase(card.name), " ")
  IN  Cardinality({w \in 1..Len(words) : includes(lower, words[w])})

\* the score of every catalogue entry for the trimmed line t, term by term
specScores(t) ==
  LET lower == toLowerCase(t)
      number == extractCardNumber(t)
  IN  [e \in 1..Len(MOCK_CARD_DATABASE) |->
         nameTerm(MOCK_CARD_DATABASE[e], lower) + setTerm(MOCK_CARD_DATABASE[e], lower)
           + numberTerm(MOCK_CARD_DATABASE[e], number)
           + wordsTerm(MOCK_CARD_DATABASE[e], lower)]

\* C6: for every processed line and every catalogue entry the score is
\* 3*[name in line] + 2*[set in line] + 2*[extracted number in the entry's
\* number] + the number of words of the name that are in the line, the word
\* points on top of the name bonus; a card's confidence carries the largest
\* such score.
C6_ScoreFormula ==
  /\ \A k \in 1..Len(doneLines) : lineScores(doneLines[k]) = specScores(doneLines[k])
  /\ \A k \in 1..Len(processedCards) :
       LET c == processedCards[k]
           sp == specScores(c.originalText)
       IN  /\ \A e \in 1..Len(MOCK_CARD_DATABASE) : c.confidence.num >= sp[e]
           /\ \E e \in 1..Len(MOCK_CARD_DATABASE) : c.confidence.num = sp[e]

\* a line with all four terms at once: "Pikachu Base Set #58" scores
\* 3 + 2 + 2 + 1 for the entry Pikachu
C6_Witness ==
  /\ pc = "done"
  /\ \E k \in 1..Len(processedCards) :
       LET c == processedCards[k]
       IN  /\ c.id[1] = 5
           /\ c.confidence.num = 8
           /\ nameTerm(MOCK_CARD_DATABASE[5], toLowerCase(c.originalText)) = 3
           /\ setTerm(MOCK_CARD_DATABASE[5], toLowerCase(c.originalText)) = 2
           /\ numberTerm(MOCK_CARD_DATABASE[5], extractCardNumber(c.originalText)) = 2
           /\ wordsTerm(MOCK_CARD_DATABASE[5], toLowerCase(c.originalText)) = 1

(* ------------------------------------------------------------------ *)
(* Properties of the conditions                                        *)
(* ------------------------------------------------------------------ *)

\* the condition keywords the specification lists, with their conditions
RecognizedKeywords == {
  [keyword |-> <<"m","i","n","t">>, condition |-> "Mint"],
  [keyword |-> <<"n","e","a","r"," ","m","i","n","t">>, condition |-> "Near Mint"],
  [keyword |-> <<"n","m">>, condition |-> "Near Mint"],
  [keyword |-> <<"l","i","g","h","t","l","y"," ","p","l","a","y","e","d">>, condition |-> "Lightly Played"],
  [keyword |-> <<"l","p">>, condition |-> "Lightly Played"],
  [keyword |-> <<"m","o","d","e","r","a","t","e","l","y"," ","p","l","a","y","e","d">>, condition |-> "Moderately Played"],
  [keyword |-> <<"m","p">>, condition |-> "Moderately Played"],
  [keyword |-> <<"h","e","a","v","i","l","y"," ","p","l","a","y","e","d">>, condition |-> "Heavily Played"],
  [keyword |-> <<"h","p">>, condition |-> "Heavily Played"],
  [keyword |-> <<"d","a","m","a","g","e","d">>, condition |-> "Heavily Played"],
  [keyword |-> <<"p","o","o","r">>, condition |-> "Heavily Played"] }

\* the keywords that are substrings of the lower-cased text
keywordsIn(lower) == {r \in RecognizedKeywords : includes(lower, r.keyword)}

\* the text extractCardInfo searches
ocrAllText == toLowerCase(join([k \in 1..Len(ocrResults) |-> ocrResults[k].text], <<" ">>))

\* the argument normalizeCondition gets for detection i (from 1)
conditionArgument(i) ==
  LET conditions == extractConditions(ocrAllText)
  IN  orElse(at(conditions, i - 1), at(conditions, 0))

TextCharizardNearMint == <<"C","h","a","r","i","z","a","r","d"," ","B","a","s","e"," ","S","e","t"," ","N","e","a","r"," ","M","i","n","t">>

\* C7: the line "Charizard Base Set Near Mint" yields a card of the entry
\* Charizard, Base Set, 450.00 with condition Near Mint, marketPrice 450.00
\* and offer price 315.00.
C7_CharizardNearMint ==
  /\ TextCharizardNearMint \in Range(doneLines)
       => TextCharizardNearMint \in Range(cardTexts)
  /\ \A k \in 1..Len(processedCards) :
       processedCards[k].originalText = TextCharizardNearMint
         => /\ processedCards[k].name = <<"C","h","a","r","i","z","a","r","d">>
            /\ processedCards[k].set = <<"B","a","s","e"," ","S","e","t">>
            /\ processedCards[k].condition = "Near Mint"
            /\ processedCards[k].marketPrice = 45000
            /\ processedCards[k].ourOffer = 31500

\* C8: for every text that contains "near mint", in any letter case, the
\* condition is Near Mint and never Mint, for the cards of the text route
\* and for the conditions normalizeCondition returns to extractCardInfo.
C8_NearMintNotMint ==
  /\ \A k \in 1..Len(processedCards) :
       includes(toLowerCase(processedCards[k].originalText), <<"n","e","a","r"," ","m","i","n","t">>)
         => processedCards[k].condition = "Near Mint"
  /\ \A i \in 1..Len(cardDetections) :
       LET arg == conditionArgument(i)
       IN  arg # <<>> /\ includes(toLowerCase(arg[1]), <<"n","e","a","r"," ","m","i","n","t">>)
             => cardDetections[i].condition = "Near Mint"

\* C9: where the text contains no condition keyword, a card of the text
\* route has the condition Near Mint and a detection of the OCR service has
\* no condition.
C9_DefaultCondition ==
  /\ \A k \in 1..Len(processedCards) :
       keywordsIn(toLowerCase(processedCards[k].originalText)) = {}
         => processedCards[k].condition = "Near Mint"
  /\ ocrPc = "extracted" /\ Len(ocrResults) > 0
       => /\ Len(cardDetections) >= 1
          /\ keywordsIn(ocrAllText) = {}
               => \A i \in 1..Len(cardDetections) : cardDetections[i].condition = Undefined

\* a card and a detection, both from texts without a condition keyword
C9_Witness ==
  /\ pc = "done"
  /\ Len(processedCards) = 1
  /\ keywordsIn(toLowerCase(processedCards[1].originalText)) = {}
  /\ processedCards[1].condition = "Near Mint"
  /\ ocrPc = "extracted"
  /\ Len(cardDetections) >= 1
  /\ keywordsIn(ocrAllText) = {}
  /\ cardDetections[1].cardName # <<>>
  /\ cardDetections[1].condition = Undefined

\* C10: a text whose only condition keyword is one of the recognized
\* keywords gets that keyword's condition, on the text route and in the OCR
\* service; damaged and poor both give Heavily Played.
C10_KeywordConditions ==
  /\ \A k \in 1..Len(processedCards) :
       LET present == keywordsIn(toLowerCase(processedCards[k].originalText))
       IN  \A r \in RecognizedKeywords :
             present = {r} => processedCards[k].condition = r.condition
  /\ \A i \in 1..Len(cardDetections) :
       LET arg == conditionArgument(i)
       IN  arg # <<>>
             => \A r \in RecognizedKeywords :
                  keywordsIn(toLowerCase(arg[1])) = {r}
                    => cardDetections[i].condition = r.condition

(* ------------------------------------------------------------------ *)
(* Properties of the prices                                            *)
(* ------------------------------------------------------------------ *)

\* the multipliers the specification lists, in tenths
specMultiplier ==
  [c \in {"Mint", "Near Mint", "Lightly Played", "Moderately Played", "Heavily Played"} |->
     CASE c = "Mint" -> 11
       [] c = "Near Mint" -> 10
       [] c = "Lightly Played" -> 8
       [] c = "Moderately Played" -> 6
       [] c = "Heavily Played" -> 4]

\* n / scale rounded half-up to a whole number, scale even
halfUp(n, scale) == (n + scale \div 2) \div scale

\* C11: for every matched card, in cents and rounding half-up: marketPrice
\* is the entry's price times the multiplier of the card's condition (Mint
\* 1.1, Near Mint 1.0, Lightly Played 0.8, Moderately Played 0.6, Heavily
\* Played 0.4), rounded, and the offer is 0.7 times that rounded market
\* price, rounded.
C11_OfferFromRoundedPrice ==
  \A k \in 1..Len(processedCards) :
    LET c == processedCards[k]
        entry == MOCK_CARD_DATABASE[entryOf(c)]
    IN  /\ c.condition \in DOMAIN specMultiplier
        /\ c.marketPrice = halfUp(entry.marketPrice * specMultiplier[c.condition], 10)
        /\ c.ourOffer = halfUp(c.marketPrice * 7, 10)

\* a Mint card at 93.50 with offer 65.45 and a Lightly Played card at
\* 144.00 with offer 100.80 have been answered
C11_Witness ==
  /\ pc = "done"
  /\ response.success
  /\ \E k \in 1..Len(response.data.cards) :
       LET c == response.data.cards[k]
       IN  \/ c.condition = "Mint" /\ c.marketPrice = 9350 /\ c.ourOffer = 6545
           \/ c.condition = "Lightly Played" /\ c.marketPrice = 14400 /\ c.ourOffer = 10080

\* C12: for every matched card the offer is at most the market price at
\* the condition, and that price is at most 1.1 times the price of the
\* catalogue entry.
C12_PriceBounds ==
  \A k \in 1..Len(processedCards) :
    LET c == processedCards[k]
        entry == MOCK_CARD_DATABASE[entryOf(c)]
    IN  /\ c.ourOffer <= c.marketPrice
        /\ 10 * c.marketPrice <= 11 * entry.marketPrice

\* a card at the largest multiplier: its price is 1.1 times the entry's
C12_Witness ==
  /\ pc = "done"
  /\ \E k \in 1..Len(processedCards) :
       LET c == processedCards[k]
           entry == MOCK_CARD_DATABASE[entryOf(c)]
       IN  /\ 10 * c.marketPrice = 11 * entry.marketPrice
           /\ c.ourOffer < c.marketPrice

\* C13: no priced card is emitted whose condition is not in the variants
\* of the catalogue entry it was made from.
C13_ConditionSupported ==
  \A k \in 1..Len(processedCards) :
    LET c == processedCards[k]
    IN  c.condition \in Range(MOCK_CARD_DATABASE[entryOf(c)].variants)

\* C14: the outputs do not depend on a random value: the card made for a
\* line is the same, in every field and in its id, whatever Math.random()
\* returns during the run.
C14_Deterministic ==
  \A k \in 1..Len(processedCards) :
    \A random \in RandomSamples :
      processedCards[k] = parseCardLine(processedCards[k].originalText, random)

(* ------------------------------------------------------------------ *)
(* Properties of empty input and of the card number                    *)
(* ------------------------------------------------------------------ *)

\* a text with no character that is not white space
blankText(chars) == \A k \in 1..Len(chars) : chars[k] \in Whitespace

\* C15: a request whose text is missing, is not a string, is empty or has
\* only blank lines is answered with success = false and status 400, a
\* success never carries an empty result, and validateCardText throws a
\* ValidationError for a missing, empty or blank text.
C15_EmptyInputFails ==
  /\ response.sent /\ body.kind \in {"undefined", "number"}
       => ~response.success /\ response.status = 400 /\ ~response.data.present
  /\ response.sent /\ body.kind = "string" /\ blankText(body.chars)
       => ~response.success /\ response.status = 400 /\ ~response.data.present
  /\ response.sent /\ response.success
       => Len(response.data.cards) + Len(response.data.unmatched) >= 1
  /\ validation.called /\ (body.kind = "undefined" \/ blankText(body.chars))
       => /\ validation.threw
          /\ validation.error.name = "ValidationError"
          /\ validation.error.statusCode = 400

\* a text of blank lines only has been answered with 400 and has made
\* validateCardText throw
C15_Witness ==
  /\ body.kind = "string"
  /\ Len(body.chars) > 3
  /\ blankText(body.chars)
  /\ response.sent /\ response.status = 400
  /\ validation.called /\ validation.threw

\* s is one or more decimal digits
isDigits(s) == Len(s) >= 1 /\ \A k \in 1..Len(s) : s[k] \in Digits

\* s has the form digits "/" digits
isFraction(s) ==
  \E k \in 2..(Len(s) - 1) :
    s[k] = "/" /\ isDigits(SubSeq(s, 1, k - 1)) /\ isDigits(SubSeq(s, k + 1, Len(s)))

\* s has the form "#" digits
isHash(s) == Len(s) >= 2 /\ s[1] = "#" /\ isDigits(Tail(s))

\* the tokens of the line t that have one of the two forms
numberTokens(t) ==
  LET starts == {p \in 1..Len(t) : t[p] \in Digits \cup {"#"}}
      ends == {q \in 1..Len(t) : t[q] \in Digits}
  IN  {s \in {SubSeq(t, p, q) : p \in starts, q \in ends} :
         isFraction(s) \/ isHash(s)}

\* C18: the card number taken from a line is a token digits "/" digits, or
\* a token "#" digits without its "#"; a line with no such token gives no
\* number, and then no entry gets the number bonus: every score is the sum
\* of the name, set and word terms.
C18_NumberHint ==
  \A k \in 1..Len(doneLines) :
    LET t == doneLines[k]
        hint == extractCardNumber(t)
        tokens == numberTokens(t)
        lower == toLowerCase(t)
        sc == lineScores(t)
    IN  /\ hint # <<>>
          => \E s \in tokens : hint = (IF s[1] = "#" THEN Tail(s) ELSE s)
        /\ tokens # {} => hint # <<>>
        /\ tokens = {}
          => /\ hint = <<>>
             /\ \A e \in 1..Len(MOCK_CARD_DATABASE) :
                  sc[e] = nameTerm(MOCK_CARD_DATABASE[e], lower)
                            + setTerm(MOCK_CARD_DATABASE[e], lower)
                            + wordsTerm(MOCK_CARD_DATABASE[e], lower)

\* a line with "#58" has given the card whose number holds 58, and a line
\* with no number has been dealt with
C18_Witness ==
  /\ pc = "done"
  /\ \E k \in 1..Len(processedCards) :
       LET c == processedCards[k]
       IN  /\ includes(c.originalText, <<"#","5","8">>)
           /\ extractCardNumber(c.originalText) = <<"5","8">>
           /\ c.id[1] = 5
  /\ \E k \in 1..Len(doneLines) : numberTokens(doneLines[k]) = {}

(* ------------------------------------------------------------------ *)
(* Properties of calculateConfidence                                   *)
(* ------------------------------------------------------------------ *)

\* an argument that is there: not undefined and not the empty string
extracted(x) == x # <<>> /\ x[1] # <<>>

\* the name is one of the names of the fixed list
inAllowList(name) == \E k \in 1..Len(knownPokemon) : toLowerCase(name) = knownPokemon[k]

TextCharizardVMAX == <<"C","h","a","r","i","z","a","r","d"," ","V","M","A","X">>

TextChampionsPath == <<"C","h","a","m","p","i","o","n","'","s"," ","P","a","t","h">>

Text7473 == <<"7","4","/","7","3">>

\* C16: whatever arguments are there, calculateConfidence returns a value
\* from 0.1 to 1.0 (in tenths: from 1 to 10), and for "Charizard VMAX",
\* "Champion's Path", "74/73" it returns 1.0.
C16_ConfidenceRange ==
  estimate.returned
    => /\ estimate.confidence >= 1
       /\ estimate.confidence <= 10
       /\ (/\ estimateArgs.cardName = <<TextCharizardVMAX>>
           /\ estimateArgs.setName = <<TextChampionsPath>>
           /\ estimateArgs.cardNumber = <<Text7473>>)
            => estimate.confidence = 10

\* the call of the scenario has returned 1.0
C16_Witness ==
  /\ estimate.returned
  /\ estimateArgs.cardName = <<TextCharizardVMAX>>
  /\ estimateArgs.setName = <<TextChampionsPath>>
  /\ estimateArgs.cardNumber = <<Text7473>>
  /\ estimate.confidence = 10

\* C17: the result is min(1.0, 0.1 + 0.4 [name] + 0.2 [name, and the name
\* is one of the allow-list] + 0.3 [set] + 0.2 [number] + 0.1 [number with
\* a "/"]), in tenths; the 0.2 goes only to names of the allow-list.
C17_ConfidenceFormula ==
  estimate.returned
    => LET name == extracted(estimateArgs.cardName)
           set == extracted(estimateArgs.setName)
           number == extracted(estimateArgs.cardNumber)
           sum == 1 + (IF name THEN 4 ELSE 0)
                    + (IF name /\ inAllowList(estimateArgs.cardName[1]) THEN 2 ELSE 0)
                    + (IF set THEN 3 ELSE 0)
                    + (IF number THEN 2 ELSE 0)
                    + (IF number /\ "/" \in Range(estimateArgs.cardNumber[1]) THEN 1 ELSE 0)
       IN  estimate.confidence = (IF sum > 10 THEN 10 ELSE sum)

(* ------------------------------------------------------------------ *)
(* Properties of retryWithBackoff                                      *)
(* ------------------------------------------------------------------ *)

\* the calls of fn that failed
failures == {k \in 1..Len(fnCalls) : ~fnCalls[k].ok}

\* C19: with maxRetries >= 1, fn is called at most maxRetries times and
\* never while an earlier call is pending; once a call succeeds the promise
\* is resolved with its value, every earlier call has failed, and fn is not
\* called again.
C19_StopsAtFirstSuccess ==
  maxRetries >= 1
    => /\ invocations <= maxRetries
       /\ fnPending <= 1
       /\ \A k \in 1..Len(fnCalls) :
            fnCalls[k].ok
              => /\ k = Len(fnCalls)
                 /\ fnPending = 0
                 /\ failures = 1..(k - 1)
                 /\ settled = [state |-> "resolved", value |-> <<fnCalls[k].value>>]
       /\ settled.state = "resolved"
            => Len(fnCalls) >= 1 /\ fnCalls[Len(fnCalls)].ok

\* the third call succeeds after two failures and the promise is resolved
C19_Witness ==
  /\ maxRetries > 3
  /\ settled.state = "resolved"
  /\ Len(fnCalls) = 3
  /\ failures = {1, 2}
  /\ fnPending = 0

\* C20: when every attempt fails, the promise is rejected after exactly
\* maxRetries calls of fn, with the error of the last call; the wait after
\* the failed attempt k (from 0, k < maxRetries - 1) is baseDelay * 2^k, and
\* there is no wait after the last failed attempt.
C20_RejectsAfterMaxRetries ==
  /\ \A k \in 1..Len(waits) : waits[k] = baseDelay * 2 ^ (k - 1)
  /\ settled.state = "pending" /\ retryPc # "start"
       => Len(waits) = Cardinality(failures)
  /\ settled.state = "rejected"
       => /\ invocations = maxRetries
          /\ fnPending = 0
          /\ failures = 1..maxRetries
          /\ maxRetries >= 1
               => /\ settled.value = <<fnCalls[maxRetries].value>>
                  /\ fnCalls[maxRetries].value.call = maxRetries
                  /\ Len(waits) = maxRetries - 1

\* three attempts with a base delay of 1000 have failed: the waits were
\* 1000 and 2000 and the promise is rejected with the third error
C20_Witness ==
  /\ maxRetries = 3
  /\ baseDelay = 1000
  /\ settled.state = "rejected"
  /\ Len(fnCalls) = 3
  /\ waits = <<1000, 2000>>
  /\ settled.value[1].call = 3

(* ------------------------------------------------------------------ *)
(* Properties of the confidence of detections and cards                *)
(* ------------------------------------------------------------------ *)

\* C21: the confidence of every detection of extractCardInfo is
\* calculateConfidence of the card name, set name and card number the
\* detection itself carries, also for a later detection whose set or number
\* is the first one extracted.
C21_ConfidenceOfStoredSignals ==
  \A i \in 1..Len(cardDetections) :
    LET d == cardDetections[i]
    IN  d.confidence = calculateConfidence(d.cardName, d.setName, d.cardNumber)

\* C22: the confidence of every card of the text route, the best score
\* divided by 5, is at least 0 and at most 1.
C22_CardConfidenceInUnitRange ==
  \A k \in 1..Len(processedCards) :
    LET c == processedCards[k]
    IN  /\ c.confidence.num >= 0
        /\ c.confidence.num <= c.confidence.den

(* ------------------------------------------------------------------ *)
(* Properties of processImage                                          *)
(* ------------------------------------------------------------------ *)

\* the bytes of s begin with the bytes of prefix
startsWith(bytes, prefix) ==
  Len(bytes) >= Len(prefix) /\ \A k \in 1..Len(prefix) : bytes[k] = prefix[k]

\* an image processImage must refuse: none, empty, over 10MB, or with
\* leading bytes that are no PNG, JPEG or WebP signature
refusedImage(buffer) ==
  \/ buffer.isNull
  \/ buffer.length = 0
  \/ buffer.length > 10485760
  \/ /\ ~startsWith(buffer.head, <<137, 80, 78, 71, 13, 10, 26, 10>>)
     /\ ~startsWith(buffer.head, <<255, 216>>)
     /\ ~(/\ startsWith(buffer.head, <<82, 73, 70, 70>>)
          /\ Len(buffer.head) >= 12
          /\ SubSeq(buffer.head, 9, 12) = <<87, 69, 66, 80>>)

\* C23: for an image it must refuse, processImage never calls the OCR
\* provider and never returns a result, the mock result included, with or
\* without an API key, and fails with InvalidImageError; whenever
\* processImage fails, the error was logged exactly once and the caller
\* gets that same error.
C23_ValidatesFirst ==
  /\ imagePc # "idle" /\ refusedImage(imageBuffer)
       => /\ invocations = 0
          /\ retryPc = "idle"
          /\ imageResult.state # "resolved"
          /\ imagePc = "done"
               => /\ imageResult.state = "rejected"
                  /\ imageResult.value[1].name = "InvalidImageError"
  /\ imagePc = "done" /\ settled.state = "rejected"
       => imageResult = settled
  /\ imageResult.state = "rejected" => logged = imageResult.value
  /\ imageResult.state # "rejected" => logged = <<>>

\* an image of a wrong format has been refused although a key is
\* configured
C23_Witness ==
  /\ imagePc = "done"
  /\ apiKey # ""
  /\ imageBuffer.length = 12
  /\ refusedImage(imageBuffer)
  /\ imageResult.state = "rejected"
  /\ imageResult.value[1].name = "InvalidImageError"
  /\ Len(logged) = 1

(* ------------------------------------------------------------------ *)
(* Properties of the page component                                    *)
(* ------------------------------------------------------------------ *)

\* the fetches that have not settled
requestsInFlight == inFlight.text + inFlight.images

\* C24: once loading is true it becomes false again, whatever the request
\* does; while loading is true no request is sent, so at most one is in
\* flight; and a call of processTextInput on a text of blanks changes
\* nothing of the page and sends nothing.
C24_LoadingReleased ==
  /\ [](requestsInFlight <= 1)
  /\ [](loading <=> requestsInFlight = 1)
  /\ [][loading => requestsInFlight' <= requestsInFlight]_vars
  /\ [][(handlerCalls' = Append(handlerCalls, "processTextInput")
           /\ \A k \in 1..Len(textInput) : textInput[k] \in Whitespace)
          => UNCHANGED <<activeTab, uploadedImages, textInput, identifiedCards,
                         showOffer, offerAccepted, loading, inFlight, alerted>>]_vars
  /\ (loading ~> ~loading)

\* both handlers have run, the last request threw, and loading is false
\* again
C24_Witness ==
  /\ Len(handlerCalls) = 2
  /\ handlerCalls[1] # handlerCalls[2]
  /\ ~loading
  /\ requestsInFlight = 0
  /\ alerted = <<"Failed to process images. Please try again.">>

====
